---- MODULE Spec2Model ----
(***************************************************************************)
(* Verification model of the adaptive large-dataset analysis pipeline of   *)
(* data_report: the asynchronous TaskManager, the chunk planner and the    *)
(* result merger (tasks/), the sampling engine (utils/sampling.py), the    *)
(* parallel column processor (analysis/parallel_processor.py) and the      *)
(* preparation / missing-value stages of analyze_data_file.                *)
(*                                                                         *)
(* Each component has its own specification over the shared variables; a   *)
(* component that a specification does not exercise stays in its idle      *)
(* state.                                                                  *)
(***************************************************************************)
EXTENDS Integers, Sequences, FiniteSets, TLC

VARIABLES
    \* ---- TaskManager (tasks/task_manager.py) ----
    tasks,            \* self.tasks: task id -> TaskInfo (status, progress, task_type)
    running_tasks,    \* keys of self.running_tasks
    coro,             \* life cycle of the asyncio.Task wrapping _run_task_handler
    must_cancel,      \* asyncio.Task.cancel() was requested and not yet delivered
    max_concurrent_tasks,
    completed_order,  \* task ids with a completed_at, the oldest completed_at first
    deleted,          \* task ids cleanup_completed_tasks deleted from self.tasks
    cleanup_k,        \* keep_recent of the latest cleanup_completed_tasks call, -1: none
    \* ---- Chunk planner (tasks/chunk_processor.py) ----
    ck_pc,            \* "idle" | "input" | "planned"
    ck_df,            \* the dataset handed to create_adaptive_chunks
    ck_cfg,           \* the DataChunkProcessor configuration
    ck_time,          \* the time column argument and what sorting by it does
    ck_chunks,        \* the returned list of ChunkInfo
    ck_overlap,       \* overlap_ratio of the processor, in percent
    ck_view,          \* the last get_chunk_data call and the slice it returned
    \* ---- Result merger (tasks/chunk_processor.py) ----
    mg_pc,            \* "idle" | "input" | "merged"
    mg_kind,          \* result_type given to merge_chunk_results
    mg_column,        \* the numeric column the stats partials were taken from
    mg_results,       \* chunk_results
    mg_chunks,        \* the chunk data handle_full_analysis iterates over
    mg_merged,        \* the returned dict
    \* ---- Sampling engine (utils/sampling.py) ----
    sa_pc,            \* "idle" | "input" | "done" | "estimated"
    sa_in,            \* the dataset, time column and threshold of the call
    sa_out,           \* the returned (dataset, sampling_info)
    sa_days,          \* what _estimate_time_range_days returned
    \* ---- parallel_column_processing (analysis/parallel_processor.py) ----
    pp_pc,            \* where the calling thread is
    pp_columns,       \* the columns argument
    pp_func,          \* what process_func does on each column of df
    pp_max_workers,   \* the max_workers argument
    pp_i,             \* index of the loop the calling thread is in
    pp_futures,       \* the (col, future) list, futures named by their column
    pp_work,          \* per future: its state and its TaskResult
    pp_results,       \* the results dict
    pp_timed_out,     \* columns whose future.result(timeout=30) timed out
    pp_completed,     \* columns in the order their tasks completed
    \* ---- analyze_data_file: preparation and missing values (main.py) ----
    rp_pc,            \* "idle" | "loaded" | "prepared" | "analyzed" | "returned" |
                      \* "failed" (analyze_data_file raised)
    rp_df,            \* the loaded dataset: rows and nulls of its column
    rp_col,           \* the column: its dtype and whether its values are all equal
    rp_time,          \* the dataset's other column, a candidate time column
    rp_info,          \* time_column and warnings of prepare_analysis_data
    rp_result,        \* the dict analyze_data_file returns
    rp_processed,     \* processed_df of prepare_analysis_data
    rp_missing,       \* the missing_values section for the column
    \* ---- perform_adf_test (analysis/time_series.py) ----
    ad_pc,            \* "idle" | "input" | "done"
    ad_series,        \* the series argument: None, or its length and nulls
    ad_adfuller,      \* what statsmodels' adfuller does on the clean values
    ad_result         \* the returned dict

tmVars == <<tasks, running_tasks, coro, must_cancel, max_concurrent_tasks,
            completed_order, deleted, cleanup_k>>
ckVars == <<ck_pc, ck_df, ck_cfg, ck_time, ck_chunks, ck_overlap, ck_view>>
mgVars == <<mg_pc, mg_kind, mg_column, mg_results, mg_merged, mg_chunks>>
saVars == <<sa_pc, sa_in, sa_out, sa_days>>
ppVars == <<pp_pc, pp_columns, pp_func, pp_max_workers, pp_i, pp_futures, pp_work,
            pp_results, pp_timed_out, pp_completed>>
rpVars == <<rp_pc, rp_df, rp_col, rp_time, rp_info, rp_result, rp_processed, rp_missing>>
adVars == <<ad_pc, ad_series, ad_adfuller, ad_result>>

vars == <<tasks, running_tasks, coro, must_cancel, max_concurrent_tasks,
          completed_order, deleted, cleanup_k,
          ck_pc, ck_df, ck_cfg, ck_time, ck_chunks, ck_overlap, ck_view,
          mg_pc, mg_kind, mg_column, mg_results, mg_merged, mg_chunks,
          sa_pc, sa_in, sa_out, sa_days,
          pp_pc, pp_columns, pp_func, pp_max_workers, pp_i, pp_futures, pp_work,
          pp_results, pp_timed_out, pp_completed,
          rp_pc, rp_df, rp_col, rp_time, rp_info, rp_result, rp_processed, rp_missing,
          ad_pc, ad_series, ad_adfuller, ad_result>>

(***************************************************************************)
(* Generic helpers                                                         *)
(***************************************************************************)
Min2(a, b) == IF a <= b THEN a ELSE b
Max2(a, b) == IF a >= b THEN a ELSE b

(***************************************************************************)
(* TaskManager                                                             *)
(***************************************************************************)
\* Number of task ids the model hands out (uuid4 values, in creation order).
MaxTasks == 3
\* Largest max_concurrent_tasks the constructor is given in the model.
MaxConcurrent == 2

TaskIds == 1..MaxTasks

\* TaskStatus enum; "absent" stands for an id that is not a key of self.tasks.
PENDING == "pending"
RUNNING == "running"
COMPLETED == "completed"
FAILED == "failed"
CANCELLED == "cancelled"
TaskStatus == {PENDING, RUNNING, COMPLETED, FAILED, CANCELLED}
TerminalStatus == {COMPLETED, FAILED, CANCELLED}

\* Task types offered to create_task and the types with a registered handler.
TaskTypes == {"basic_stats", "unregistered"}
task_handlers == {"basic_stats"}

\* Progress values passed to update_progress (below and above 0..100).
ProgressInputs == {-1, 150}

AbsentTask == [status |-> "absent", progress |-> 0, task_type |-> "none"]

\* Ids create_task has handed out, and the keys of self.tasks.
Created == {t \in TaskIds : tasks[t].status # "absent"}
InTasks == Created \ deleted

\* keep_recent values passed to cleanup_completed_tasks.
KeepRecentInputs == {0, 1}

\* completed_at = datetime.now(): the task becomes the latest completed one.
StampCompleted(order, t) == Append(SelectSeq(order, LAMBDA x : x # t), t)

\* _execute_task applied to one task of the given manager state
\* st = [tasks, running, coro, order].
ExecuteTask(st, t) ==
    IF st.tasks[t].task_type \notin task_handlers
    THEN [st EXCEPT !.tasks[t].status = FAILED, !.order = StampCompleted(@, t)]
    ELSE [st EXCEPT !.tasks[t].status = RUNNING,
                    !.running = @ \cup {t},
                    !.coro[t] = "scheduled"]

\* The for loop of _try_execute_pending_tasks over the pending tasks, which are
\* sorted by created_at (ids are handed out in creation order).
RECURSIVE ExecutePendingFrom(_, _, _)
ExecutePendingFrom(st, pending, limit) ==
    IF pending = {} THEN st
    ELSE IF Cardinality(st.running) >= limit THEN st
    ELSE LET t == CHOOSE x \in pending : \A y \in pending : x <= y
         IN ExecutePendingFrom(ExecuteTask(st, t), pending \ {t}, limit)

TryExecutePendingTasks(st, limit) ==
    IF Cardinality(st.running) >= limit THEN st
    ELSE ExecutePendingFrom(st, {t \in TaskIds : st.tasks[t].status = PENDING}, limit)

TmState == [tasks |-> tasks, running |-> running_tasks, coro |-> coro,
            order |-> completed_order]

TmInstall(st) ==
    /\ tasks' = st.tasks
    /\ running_tasks' = st.running
    /\ coro' = st.coro
    /\ completed_order' = st.order

InitTM ==
    /\ tasks = [t \in TaskIds |-> AbsentTask]
    /\ running_tasks = {}
    /\ coro = [t \in TaskIds |-> "none"]
    /\ must_cancel = [t \in TaskIds |-> FALSE]
    /\ max_concurrent_tasks \in 1..MaxConcurrent
    /\ completed_order = <<>>
    /\ deleted = {}
    /\ cleanup_k = -1

\* create_task: register the task as pending, then try to dispatch.
create_task(ty) ==
    /\ Created # TaskIds
    /\ LET t == CHOOSE x \in TaskIds \ Created : \A y \in TaskIds \ Created : x <= y
           st == [TmState EXCEPT !.tasks[t] =
                     [status |-> PENDING, progress |-> 0, task_type |-> ty]]
       IN TmInstall(TryExecutePendingTasks(st, max_concurrent_tasks))
    /\ UNCHANGED <<must_cancel, max_concurrent_tasks, deleted, cleanup_k>>

\* cancel_task: unknown ids return False; a running task's asyncio task is
\* cancelled and forgotten; the status is set to CANCELLED whatever it was.
cancel_task(t) ==
    /\ t \in InTasks
    /\ LET live == tasks[t].status = RUNNING /\ t \in running_tasks
       IN /\ must_cancel' = IF live /\ coro[t] # "done"
                            THEN [must_cancel EXCEPT ![t] = TRUE] ELSE must_cancel
          /\ running_tasks' = IF live THEN running_tasks \ {t} ELSE running_tasks
    /\ tasks' = [tasks EXCEPT ![t].status = CANCELLED]
    /\ completed_order' = StampCompleted(completed_order, t)
    /\ UNCHANGED <<coro, max_concurrent_tasks, deleted, cleanup_k>>

\* update_progress: clamp to 0..100; the status is not touched.
update_progress(t, p) ==
    /\ t \in InTasks
    /\ tasks' = [tasks EXCEPT ![t].progress = Max2(0, Min2(100, p))]
    /\ UNCHANGED <<running_tasks, coro, must_cancel, max_concurrent_tasks,
                   completed_order, deleted, cleanup_k>>

\* The event loop starts the coroutine and the handler suspends at an await.
HandlerSuspend(t) ==
    /\ coro[t] = "scheduled"
    /\ ~must_cancel[t]
    /\ coro' = [coro EXCEPT ![t] = "suspended"]
    /\ UNCHANGED <<tasks, running_tasks, must_cancel, max_concurrent_tasks,
                   completed_order, deleted, cleanup_k>>

\* A finally block that dispatches without forgetting the asyncio task.
RunFinallyKeepsRecord(st, t) ==
    TryExecutePendingTasks([st EXCEPT !.coro[t] = "done"], max_concurrent_tasks)

\* The finally block of _run_task_handler: forget the asyncio task, dispatch.
RunFinally(st, t) ==
    TryExecutePendingTasks([st EXCEPT !.running = @ \ {t}, !.coro[t] = "done"],
                           max_concurrent_tasks)

\* The handler returned: COMPLETED, progress 100, then the finally block.
HandlerReturn(t) ==
    /\ coro[t] \in {"scheduled", "suspended"}
    /\ ~must_cancel[t]
    /\ TmInstall(RunFinally([TmState EXCEPT !.tasks[t].status = COMPLETED,
                                            !.tasks[t].progress = 100,
                                            !.order = StampCompleted(@, t)], t))
    /\ UNCHANGED <<must_cancel, max_concurrent_tasks, deleted, cleanup_k>>

\* The handler raised an Exception: FAILED, then the finally block.
HandlerRaise(t) ==
    /\ coro[t] \in {"scheduled", "suspended"}
    /\ ~must_cancel[t]
    /\ TmInstall(RunFinally([TmState EXCEPT !.tasks[t].status = FAILED,
                                            !.order = StampCompleted(@, t)], t))
    /\ UNCHANGED <<must_cancel, max_concurrent_tasks, deleted, cleanup_k>>

\* CancelledError is thrown into the suspended handler: CANCELLED, finally.
HandlerCancelled(t) ==
    /\ coro[t] = "suspended"
    /\ must_cancel[t]
    /\ TmInstall(RunFinally([TmState EXCEPT !.tasks[t].status = CANCELLED,
                                            !.order = StampCompleted(@, t)], t))
    /\ must_cancel' = [must_cancel EXCEPT ![t] = FALSE]
    /\ UNCHANGED <<max_concurrent_tasks, deleted, cleanup_k>>

\* The asyncio task was cancelled before its first step: the coroutine body
\* (try / except / finally of _run_task_handler) never runs.
CancelledBeforeStart(t) ==
    /\ coro[t] = "scheduled"
    /\ must_cancel[t]
    /\ coro' = [coro EXCEPT ![t] = "done"]
    /\ must_cancel' = [must_cancel EXCEPT ![t] = FALSE]
    /\ UNCHANGED <<tasks, running_tasks, max_concurrent_tasks,
                   completed_order, deleted, cleanup_k>>

\* The terminal tasks of self.tasks sorted by completed_at.
CompletedTasks ==
    SelectSeq(completed_order,
              LAMBDA t : t \in InTasks /\ tasks[t].status \in TerminalStatus)

\* Python's xs[:-keep_recent]; xs[:-0] is xs[:0], the empty list.
AllButLast(xs, keep_recent) ==
    IF keep_recent = 0 THEN <<>> ELSE SubSeq(xs, 1, Len(xs) - keep_recent)

\* cleanup_completed_tasks(keep_recent): nothing awaits between the listing
\* and the deletions, the lock is free whenever a coroutine asks for it.
cleanup_completed_tasks(keep_recent) ==
    /\ cleanup_k' = keep_recent
    /\ LET completed_tasks == CompletedTasks
           tasks_to_remove == AllButLast(completed_tasks, keep_recent)
       IN deleted' = IF Len(completed_tasks) <= keep_recent THEN deleted
                     ELSE deleted \cup {tasks_to_remove[i] : i \in 1..Len(tasks_to_remove)}
    /\ UNCHANGED <<tasks, running_tasks, coro, must_cancel, max_concurrent_tasks,
                   completed_order>>

IdleTM ==
    /\ tasks = [t \in TaskIds |-> AbsentTask]
    /\ running_tasks = {}
    /\ coro = [t \in TaskIds |-> "none"]
    /\ must_cancel = [t \in TaskIds |-> FALSE]
    /\ max_concurrent_tasks = 1
    /\ completed_order = <<>>
    /\ deleted = {}
    /\ cleanup_k = -1

(***************************************************************************)
(* Chunk planner                                                           *)
(*                                                                         *)
(* A dataset is described by its row count and its memory profile: the     *)
(* first h rows take w1 bytes each and the remaining rows w2 bytes each    *)
(* (text-heavy rows next to numeric ones).  Memory is counted in bytes;    *)
(* max_chunk_memory is max_chunk_memory_mb expressed in bytes.             *)
(***************************************************************************)
\* head() sample of calculate_optimal_chunk_size.
SampleRows == 1000
\* Row count above which create_adaptive_chunks prefers time-aligned chunks.
TimeChunkRows == 100000

\* A frame is a view df.slice(off, len) of a profile p.
Frame(p, off, len) == [p |-> p, off |-> off, len |-> len]
WholeFrame(p) == Frame(p, 0, p.n)

\* df.slice(offset, length) of a frame: clamped to the frame.
SliceFrame(f, offset, length) ==
    LET o == Min2(offset, f.len)
        l == Min2(length, f.len - o)
    IN Frame(f.p, f.off + o, l)

\* estimate_memory_usage, in bytes.
estimate_memory_usage(f) ==
    LET a == f.off
        b == f.off + f.len
        light == Max2(0, Min2(b, f.p.h) - a)
        heavy == Max2(0, b - Max2(a, f.p.h))
    IN light * f.p.w1 + heavy * f.p.w2

\* df.sort(time_column): the order of the rows, hence of their sizes, either
\* stays as it is or is reversed.
SortFrame(p, order) ==
    IF order = "reversed"
    THEN WholeFrame([n |-> p.n, h |-> p.n - p.h, w1 |-> p.w2, w2 |-> p.w1])
    ELSE WholeFrame(p)

calculate_optimal_chunk_size(cfg, f) ==
    IF f.len = 0 THEN cfg.min_chunk_rows
    ELSE LET sample_size == Min2(SampleRows, f.len)
             sample_memory == estimate_memory_usage(SliceFrame(f, 0, sample_size))
             \* int(max_chunk_memory_mb / (sample_memory / sample_size))
             rows_per_chunk == (cfg.max_chunk_memory * sample_size) \div sample_memory
         IN Max2(cfg.min_chunk_rows, Min2(cfg.max_chunk_rows, rows_per_chunk))

\* Mutation of ChunkEndRow: the last chunk is not clamped to the dataset.
ChunkEndRowUnclamped(i, chunk_size, total_rows) == i + chunk_size

\* The end of the row range starting at i.
ChunkEndRow(i, chunk_size, total_rows) == Min2(i + chunk_size, total_rows)

\* A (min, max) pair of the time column, or None.  Times are counted so
\* that the row at position j of the time-sorted dataset has time j.
NoTimeRange == [known |-> FALSE, lo |-> 0, hi |-> 0]
TimeRange(lo, hi) == [known |-> TRUE, lo |-> lo, hi |-> hi]

ChunkInfo(id, start, end, mem) ==
    [chunk_id |-> id, start_row |-> start, end_row |-> end,
     row_count |-> end - start, memory_estimate |-> mem,
     time_column |-> FALSE, time_range |-> NoTimeRange]

create_row_based_chunks(cfg, f) ==
    IF f.len = 0 THEN <<>>
    ELSE LET chunk_size == calculate_optimal_chunk_size(cfg, f)
             count == (f.len + chunk_size - 1) \div chunk_size
         IN [k \in 1..count |->
               LET start_row == (k - 1) * chunk_size
                   end_row == ChunkEndRow(start_row, chunk_size, f.len)
               IN ChunkInfo(k - 1, start_row, end_row,
                     estimate_memory_usage(SliceFrame(f, start_row, end_row - start_row)))]

\* create_time_based_chunks: row-based chunks of the time-sorted dataset; any
\* failure (conversion raises, no non-null time) falls back to the dataset as
\* it is.
\* Each chunk gets the min and max time of its slice of the sorted dataset.
create_time_based_chunks(cfg, p, tm) ==
    IF tm.outcome = "ok"
    THEN LET chunks == create_row_based_chunks(cfg, SortFrame(p, tm.order))
         IN [k \in 1..Len(chunks) |->
               IF chunks[k].row_count > 0
               THEN [chunks[k] EXCEPT
                       !.time_column = TRUE,
                       !.time_range = TimeRange(chunks[k].start_row,
                                                chunks[k].end_row - 1)]
               ELSE chunks[k]]
    ELSE create_row_based_chunks(cfg, WholeFrame(p))

\* The sub-chunks of an oversized chunk, shifted to the chunk's position.
SubChunks(cfg, p, chunk, first_id) ==
    LET sub == create_row_based_chunks(cfg,
                   SliceFrame(WholeFrame(p), chunk.start_row, chunk.row_count))
    IN [k \in 1..Len(sub) |->
          [sub[k] EXCEPT !.chunk_id = first_id + k - 1,
                         !.start_row = @ + chunk.start_row,
                         !.end_row = @ + chunk.start_row]]

\* The refinement loop of create_adaptive_chunks.
RECURSIVE RefineChunks(_, _, _, _, _)
RefineChunks(cfg, p, chunks, k, refined) ==
    IF k > Len(chunks) THEN refined
    ELSE IF 2 * chunks[k].memory_estimate > 3 * cfg.max_chunk_memory
         THEN RefineChunks(cfg, p, chunks, k + 1,
                           refined \o SubChunks(cfg, p, chunks[k], Len(refined)))
         ELSE RefineChunks(cfg, p, chunks, k + 1, Append(refined, chunks[k]))

create_adaptive_chunks(cfg, p, tm) ==
    LET total_rows == p.n
        total_memory == estimate_memory_usage(WholeFrame(p))
    IN IF total_memory <= cfg.max_chunk_memory
       THEN <<ChunkInfo(0, 0, total_rows, total_memory)>>
       ELSE IF tm.present /\ total_rows > TimeChunkRows
            THEN RefineChunks(cfg, p, create_time_based_chunks(cfg, p, tm), 1, <<>>)
            ELSE create_row_based_chunks(cfg, WholeFrame(p))

\* The time of the row at position i of the dataset as it was given: the
\* dataset is in ascending or in descending time order.
RowTime(p, tm, i) == IF tm.order = "reversed" THEN p.n - 1 - i ELSE i

\* min and max of the time column over the rows of a non-empty frame of the
\* dataset as it was given.
FrameTimeRange(f, tm) ==
    TimeRange(Min2(RowTime(f.p, tm, f.off), RowTime(f.p, tm, f.off + f.len - 1)),
              Max2(RowTime(f.p, tm, f.off), RowTime(f.p, tm, f.off + f.len - 1)))

\* Mutation of OverlapStart: the start is not clamped to the dataset.
OverlapStartUnclamped(start_row, overlap_rows) == start_row - overlap_rows

\* The start of the slice with overlap.
OverlapStart(start_row, overlap_rows) == Max2(0, start_row - overlap_rows)

\* get_chunk_data: the slice of df for a chunk; overlap is overlap_ratio in
\* percent, overlap_rows = int(row_count * overlap_ratio).
get_chunk_data(f, chunk_info, with_overlap, overlap) ==
    IF with_overlap /\ overlap > 0
    THEN LET overlap_rows == (chunk_info.row_count * overlap) \div 100
             start_row == OverlapStart(chunk_info.start_row, overlap_rows)
             end_row == Min2(f.len, chunk_info.end_row + overlap_rows)
         IN SliceFrame(f, start_row, end_row - start_row)
    ELSE SliceFrame(f, chunk_info.start_row, chunk_info.end_row - chunk_info.start_row)

OverlapPercents == {0, 10, 150}
NoView == [index |-> 0, with_overlap |-> FALSE, frame |-> Frame(0, 0, 0)]

\* Largest number of chunks a plan of the model may need: inputs with
\* n > MaxPlanChunks * min_chunk_rows are left out.
MaxPlanChunks == 60

\* Inputs of the planner.
PlanRowCounts == {0, 1, 999, 1000, 1001, 2500, 100000, 100001, 250000, 1000001}
PlanRowBytes == {8, 64}
PlanProfiles ==
    {[n |-> n, h |-> h, w1 |-> w1, w2 |-> w2] :
        n \in PlanRowCounts, h \in {0, 500, 100000}, w1 \in PlanRowBytes, w2 \in PlanRowBytes}
PlanConfigs ==
    [max_chunk_memory : {0, 8000, 640000, 2000000},
     min_chunk_rows : {1000, 20000},
     max_chunk_rows : {5000, 1000000}]
PlanTimes ==
    {[present |-> FALSE, outcome |-> "none", order |-> "same"]}
    \cup [present : {TRUE}, outcome : {"ok", "raises", "all_null"},
          order : {"same", "reversed"}]

(***************************************************************************)
(* Result merger                                                           *)
(*                                                                         *)
(* A Python dict is a record with a field "keys" naming the keys that are  *)
(* present; dict.get(k, d) reads the field when k is present and d         *)
(* otherwise.  float('inf') and float('-inf') are the extended numbers     *)
(* PosInf and NegInf.  Quotients are kept exact: a mean is the fraction    *)
(* sum / count, and std is carried by its square, the clamped variance     *)
(* max(0, variance), as a fraction (sqrt is injective on it).              *)
(***************************************************************************)
Fin(v) == [inf |-> 0, v |-> v]
PosInf == [inf |-> 1, v |-> 0]
NegInf == [inf |-> -1, v |-> 0]
ExtLeq(a, b) ==
    \/ a.inf < b.inf
    \/ a.inf = 0 /\ b.inf = 0 /\ a.v <= b.v
    \/ a.inf = b.inf /\ a.inf # 0
\* Python's min(a, b) and max(a, b): the first argument wins a tie.
PyMin(a, b) == IF ExtLeq(a, b) THEN a ELSE b
PyMax(a, b) == IF ExtLeq(b, a) THEN a ELSE b

Frac(n, d) == [num |-> n, den |-> d]
NoFrac == Frac(0, 0)

Get(d, k, default) == IF k \in d.keys THEN d[k] ELSE default

\* A column's accumulator dict.
AccDict(keys, count, sum, sum_sq, mn, mx) ==
    [keys |-> keys, count |-> count, sum |-> sum, sum_sq |-> sum_sq,
     min |-> mn, max |-> mx, mean |-> NoFrac, std |-> NoFrac]

\* The dict any chunk result or merged result is.
EmptyDict ==
    [keys |-> {}, total_rows |-> 0, columns |-> <<>>, missing_values |-> <<>>,
     data_types |-> "none", correlation_matrix |-> "none", time_series_data |-> <<>>]

\* Mutation of MergeColumn: the running minimum is combined with max().
MergeColumnMinAsMax(col_merged, stats) ==
    [col_merged EXCEPT
        !.count = @ + Get(stats, "count", 0),
        !.sum = @ + Get(stats, "sum", 0),
        !.sum_sq = @ + Get(stats, "sum_sq", 0),
        !.min = PyMax(@, Get(stats, "min", PosInf)),
        !.max = PyMax(@, Get(stats, "max", NegInf))]

\* col_merged[...] updates of one chunk's stats for one column (the body of
\* the inner for loop of _merge_stats_results).
MergeColumn(col_merged, stats) ==
    [col_merged EXCEPT
        !.count = @ + Get(stats, "count", 0),
        !.sum = @ + Get(stats, "sum", 0),
        !.sum_sq = @ + Get(stats, "sum_sq", 0),
        !.min = PyMin(@, Get(stats, "min", PosInf)),
        !.max = PyMax(@, Get(stats, "max", NegInf))]

NewColumn == AccDict({"count", "sum", "sum_sq", "min", "max"}, 0, 0, 0, PosInf, NegInf)

\* Function f extended or overwritten at key k.
Put(f, k, v) == [x \in DOMAIN f \cup {k} |-> IF x = k THEN v ELSE f[x]]

RECURSIVE MergeColumns(_, _, _)
MergeColumns(cols, chunk_cols, todo) ==
    IF todo = {} THEN cols
    ELSE LET c == CHOOSE x \in todo : TRUE
             cur == IF c \in DOMAIN cols THEN cols[c] ELSE NewColumn
         IN MergeColumns(Put(cols, c, MergeColumn(cur, chunk_cols[c])), chunk_cols, todo \ {c})

RECURSIVE MergeMissing(_, _, _)
MergeMissing(missing, chunk_missing, todo) ==
    IF todo = {} THEN missing
    ELSE LET c == CHOOSE x \in todo : TRUE
             cur == IF c \in DOMAIN missing THEN missing[c] ELSE 0
         IN MergeMissing(Put(missing, c, cur + chunk_missing[c]), chunk_missing, todo \ {c})

\* The final statistics of one merged column: mean and std.
FinalColumn(stats) ==
    IF stats.count > 0
    THEN [stats EXCEPT
            !.keys = @ \cup {"mean", "std"},
            !.mean = Frac(stats.sum, stats.count),
            !.std = IF stats.count > 1
                    THEN Frac(Max2(0, stats.count * stats.sum_sq - stats.sum * stats.sum),
                              stats.count * (stats.count - 1))
                    ELSE Frac(0, 1)]
    ELSE stats

\* The loop of _merge_stats_results over the chunk results.
RECURSIVE MergeStatsLoop(_, _, _)
MergeStatsLoop(merged, chunk_results, k) ==
    IF k > Len(chunk_results) THEN merged
    ELSE LET result == chunk_results[k]
             cols == Get(result, "columns", <<>>)
             miss == Get(result, "missing_values", <<>>)
         IN MergeStatsLoop(
              [merged EXCEPT
                 !.total_rows = @ + Get(result, "total_rows", 0),
                 !.columns = MergeColumns(@, cols, DOMAIN cols),
                 !.missing_values = MergeMissing(@, miss, DOMAIN miss)],
              chunk_results, k + 1)

merge_stats_results(chunk_results) ==
    IF chunk_results = <<>> THEN EmptyDict
    ELSE LET start == [EmptyDict EXCEPT
                         !.keys = {"total_rows", "columns", "missing_values", "data_types"},
                         !.data_types = Get(chunk_results[1], "data_types", "none")]
             merged == MergeStatsLoop(start, chunk_results, 1)
         IN [merged EXCEPT !.columns = [c \in DOMAIN @ |-> FinalColumn(@[c])]]

\* A correlation matrix is truthy when the key is present and the dict is
\* not empty.
Truthy(matrix) == matrix \notin {"none", "empty"}

RECURSIVE merge_correlation_from(_, _)
merge_correlation_from(chunk_results, k) ==
    IF k > Len(chunk_results) THEN EmptyDict
    ELSE IF Truthy(Get(chunk_results[k], "correlation_matrix", "none"))
         THEN chunk_results[k]
         ELSE merge_correlation_from(chunk_results, k + 1)

merge_correlation_results(chunk_results) == merge_correlation_from(chunk_results, 1)

RECURSIVE ConcatSeries(_, _)
ConcatSeries(chunk_results, k) ==
    IF k > Len(chunk_results) THEN <<>>
    ELSE (IF "time_series_data" \in chunk_results[k].keys
          THEN chunk_results[k].time_series_data ELSE <<>>)
         \o ConcatSeries(chunk_results, k + 1)

\* list.sort(key=timestamp): a stable sort, by insertion after the last entry
\* that is not greater.
RECURSIVE InsertStable(_, _)
InsertStable(sorted, e) ==
    IF sorted = <<>> THEN <<e>>
    ELSE IF sorted[Len(sorted)].timestamp <= e.timestamp
         THEN Append(sorted, e)
         ELSE Append(InsertStable(SubSeq(sorted, 1, Len(sorted) - 1), e), sorted[Len(sorted)])

RECURSIVE StableSort(_)
StableSort(xs) ==
    IF xs = <<>> THEN <<>>
    ELSE InsertStable(StableSort(SubSeq(xs, 1, Len(xs) - 1)), xs[Len(xs)])

merge_time_series_results(chunk_results) ==
    [EmptyDict EXCEPT
        !.keys = {"time_series_data", "trends", "seasonality"},
        !.time_series_data = StableSort(ConcatSeries(chunk_results, 1))]

merge_chunk_results(chunk_results, result_type) ==
    IF chunk_results = <<>> THEN EmptyDict
    ELSE IF result_type = "stats" THEN merge_stats_results(chunk_results)
    ELSE IF result_type = "correlation" THEN merge_correlation_results(chunk_results)
    ELSE merge_time_series_results(chunk_results)

\* Inputs of the merger.
\* Longest numeric column whose partials are merged.
MaxColumnLen == 3
\* Most chunk results of the correlation kind in one call.
MaxCorrResults == 3
\* Most chunk results of the time-series kind, and most entries in one.
MaxSeriesResults == 2
MaxSeriesLen == 2

CellValues == {-1, 2}
PartitionSizes == {1, 2, 5}
MergeColumnName == "value"

SeqsUpTo(S, n) == UNION {[1..m -> S] : m \in 0..n}

RECURSIVE SumSeq(_)
SumSeq(xs) == IF xs = <<>> THEN 0 ELSE xs[1] + SumSeq(Tail(xs))
SumSqSeq(xs) == SumSeq([i \in 1..Len(xs) |-> xs[i] * xs[i]])
MinSeq(xs) == CHOOSE v \in {xs[i] : i \in 1..Len(xs)} : \A i \in 1..Len(xs) : v <= xs[i]
MaxSeq(xs) == CHOOSE v \in {xs[i] : i \in 1..Len(xs)} : \A i \in 1..Len(xs) : v >= xs[i]

\* The partial accumulator of one chunk of a column: a chunk without values
\* carries no min and no max.
Accumulator(xs) ==
    IF xs = <<>>
    THEN AccDict({"count", "sum", "sum_sq"}, 0, 0, 0, PosInf, NegInf)
    ELSE AccDict({"count", "sum", "sum_sq", "min", "max"},
                 Len(xs), SumSeq(xs), SumSqSeq(xs), Fin(MinSeq(xs)), Fin(MaxSeq(xs)))

\* The stats result of a chunk holding the values xs and nulls null cells.
StatsResult(xs, nulls) ==
    [EmptyDict EXCEPT
        !.keys = {"total_rows", "columns", "missing_values", "data_types"},
        !.total_rows = Len(xs) + nulls,
        !.columns = [c \in {MergeColumnName} |-> Accumulator(xs)],
        !.missing_values = [c \in {MergeColumnName} |-> nulls],
        !.data_types = "Int64"]

\* Cut points 0 = c[0] <= c[1] <= ... <= c[k] = n of a contiguous partition.
Partitions(n, k) ==
    {c \in [0..k -> 0..n] : c[0] = 0 /\ c[k] = n /\ \A i \in 1..k : c[i - 1] <= c[i]}

StatsResults(col, cuts, k, null_chunk) ==
    [i \in 1..k |-> StatsResult(SubSeq(col, cuts[i - 1] + 1, cuts[i]),
                                IF i = null_chunk THEN 1 ELSE 0)]

CorrResult(m) ==
    IF m = "none" THEN [EmptyDict EXCEPT !.keys = {"error"}]
    ELSE [EmptyDict EXCEPT !.keys = {"correlation_matrix"}, !.correlation_matrix = m]

\* Two entries with the same timestamp and one with a later timestamp.
SeriesEntries ==
    {[timestamp |-> 1, value |-> 10], [timestamp |-> 1, value |-> 20],
     [timestamp |-> 2, value |-> 10]}
SeriesResult(xs) ==
    [EmptyDict EXCEPT !.keys = {"time_series_data"}, !.time_series_data = xs]

IdleMG ==
    /\ mg_pc = "idle"
    /\ mg_kind = "stats"
    /\ mg_column = <<>>
    /\ mg_results = <<>>
    /\ mg_merged = EmptyDict
    /\ mg_chunks = <<>>

\* The placeholder _process_chunks_parallel appends for a chunk that failed.
ErrorResult == [EmptyDict EXCEPT !.keys = {"error"}]

\* Where a failed chunk stands in the list of chunk results.
ErrorPlacements == {"nowhere", "first", "middle", "last"}
WithErrors(results, where) ==
    IF where = "first" THEN <<ErrorResult>> \o results
    ELSE IF where = "last" THEN results \o <<ErrorResult>>
    ELSE IF where = "middle" /\ Len(results) >= 2
         THEN <<results[1], ErrorResult>> \o Tail(results)
    ELSE results

InitMG ==
    /\ mg_pc = "input"
    /\ mg_merged = EmptyDict
    /\ mg_chunks = <<>>
    /\ \E where \in ErrorPlacements :
       \/ /\ mg_kind = "stats"
          /\ mg_column \in SeqsUpTo(CellValues, MaxColumnLen)
          /\ \E k \in PartitionSizes : \E cuts \in Partitions(Len(mg_column), k) :
                \E null_chunk \in 0..k :
                   mg_results = WithErrors(StatsResults(mg_column, cuts, k, null_chunk), where)
       \/ /\ mg_kind = "stats"
          /\ mg_column = <<>>
          /\ mg_results = WithErrors(<<>>, where)
       \/ /\ mg_kind = "correlation"
          /\ mg_column = <<>>
          /\ \E ms \in SeqsUpTo({"none", "empty", "M1", "M2"}, MaxCorrResults) :
                mg_results = WithErrors([i \in 1..Len(ms) |-> CorrResult(ms[i])], where)
       \/ /\ mg_kind = "time_series"
          /\ mg_column = <<>>
          /\ \E ls \in SeqsUpTo(SeqsUpTo(SeriesEntries, MaxSeriesLen), MaxSeriesResults) :
                mg_results = WithErrors([i \in 1..Len(ls) |-> SeriesResult(ls[i])], where)

MergeChunkResults ==
    /\ mg_pc = "input"
    /\ mg_merged' = merge_chunk_results(mg_results, mg_kind)
    /\ mg_pc' = "merged"
    /\ UNCHANGED <<mg_kind, mg_column, mg_results, mg_chunks>>

\* The rows of one chunk of the dataset: the non-null values of the numeric
\* column and the number of null cells.
ChunkData(xs, nulls) == [values |-> xs, nulls |-> nulls]

\* calculate_single_column_stats: {} for a column without values, else the
\* descriptive statistics (median, std, quartiles, skewness and kurtosis are
\* present as keys, their values are not followed).
ColumnStats(xs) ==
    IF xs = <<>> THEN [keys |-> {}]
    ELSE [keys |-> {"count", "mean", "median", "std", "min", "max", "q1", "q3",
                    "skewness", "kurtosis"},
          count |-> Len(xs), mean |-> Frac(SumSeq(xs), Len(xs)),
          min |-> Fin(MinSeq(xs)), max |-> Fin(MaxSeq(xs))]

\* calculate_descriptive_stats(chunk_data, chunk_data.columns): a dict keyed
\* by column name, a column without statistics is left out.
calculate_descriptive_stats(chunk) ==
    [keys |-> IF ColumnStats(chunk.values).keys = {} THEN {} ELSE {MergeColumnName},
     value |-> ColumnStats(chunk.values)]

\* The dataset of mg_column cut into k chunks, null_chunk holding a null row.
DatasetChunks(col, cuts, k, null_chunk) ==
    [i \in 1..k |-> ChunkData(SubSeq(col, cuts[i - 1] + 1, cuts[i]),
                              IF i = null_chunk THEN 1 ELSE 0)]

\* Rows of the whole dataset.
DatasetRows(chunks) == SumSeq([i \in 1..Len(chunks) |-> Len(chunks[i].values) + chunks[i].nulls])

\* handle_full_analysis has chunked the dataset.
InitFA ==
    /\ mg_pc = "chunks"
    /\ mg_kind = "stats"
    /\ mg_merged = EmptyDict
    /\ mg_results = <<>>
    /\ mg_column \in SeqsUpTo(CellValues, MaxColumnLen) \ {<<>>}
    /\ \E k \in PartitionSizes : \E cuts \in Partitions(Len(mg_column), k) :
          \E null_chunk \in 0..k :
             mg_chunks = DatasetChunks(mg_column, cuts, k, null_chunk)

\* _process_chunks_parallel(df, chunks, "basic_stats", ...): one result per
\* chunk, in chunk order.
ProcessChunksParallel ==
    /\ mg_pc = "chunks"
    /\ mg_results' = [i \in 1..Len(mg_chunks) |-> calculate_descriptive_stats(mg_chunks[i])]
    /\ mg_pc' = "input"
    /\ UNCHANGED <<mg_kind, mg_column, mg_merged, mg_chunks>>

(***************************************************************************)
(* Sampling engine                                                         *)
(*                                                                         *)
(* A dataset is described by where its rows come from and how many there   *)
(* are: "input" is the DataFrame object the caller passed, "random" a      *)
(* df.sample(n, seed=42), "stratified" the rows picked by                  *)
(* _stratified_time_sample, "resampled" the buckets of group_by_dynamic,   *)
(* "filtered" the rows with a non-null time.                               *)
(***************************************************************************)
Dataset(src, height) == [src |-> src, height |-> height]

\* Tier limits, percentages and floors of calculate_optimal_sample_size.
LargeTierRows == 100000
MediumTierRows == 50000
LargeTierPercent == 5
MediumTierPercent == 10
SmallTierPercent == 20
LargeTierFloor == 5000
MediumTierFloor == 8000
SmallTierFloor == 5000

\* Mutation of calculate_optimal_sample_size: the cap at max_sample_size is lost.
calculate_optimal_sample_size_uncapped(data_length, max_sample_size) ==
    IF data_length <= max_sample_size THEN data_length
    ELSE IF data_length > LargeTierRows
         THEN Max2(LargeTierFloor, (data_length * LargeTierPercent) \div 100)
    ELSE IF data_length > MediumTierRows
         THEN Max2(MediumTierFloor, (data_length * MediumTierPercent) \div 100)
    ELSE Max2(SmallTierFloor, (data_length * SmallTierPercent) \div 100)

calculate_optimal_sample_size(data_length, max_sample_size) ==
    IF data_length <= max_sample_size THEN data_length
    ELSE IF data_length > LargeTierRows
         THEN Min2(max_sample_size,
                   Max2(LargeTierFloor, (data_length * LargeTierPercent) \div 100))
    ELSE IF data_length > MediumTierRows
         THEN Min2(max_sample_size,
                   Max2(MediumTierFloor, (data_length * MediumTierPercent) \div 100))
    ELSE Min2(max_sample_size,
              Max2(SmallTierFloor, (data_length * SmallTierPercent) \div 100))

\* Strata limits of _stratified_time_sample.
MaxStrata == 20
MinStrata == 5
RowsPerStratumUnit == 100

\* The loop of _stratified_time_sample from stratum i on: the number of
\* indices collected, or -1 when step = stratum_size // 0 raises.
RECURSIVE StratumLoop(_, _, _, _, _, _)
StratumLoop(i, num_strata, rows_per_stratum, samples_per_stratum, total_rows, collected) ==
    IF i >= num_strata THEN collected
    ELSE LET start_idx == i * rows_per_stratum
             end_idx == Min2((i + 1) * rows_per_stratum, total_rows)
             stratum_size == end_idx - start_idx
         IN IF start_idx >= total_rows THEN collected
            ELSE IF stratum_size <= samples_per_stratum
                 THEN StratumLoop(i + 1, num_strata, rows_per_stratum, samples_per_stratum,
                                  total_rows, collected + stratum_size)
            ELSE IF samples_per_stratum = 0 THEN -1
            ELSE StratumLoop(i + 1, num_strata, rows_per_stratum, samples_per_stratum,
                             total_rows, collected + samples_per_stratum)

\* _stratified_time_sample: [raises, height].
stratified_time_sample(total_rows, target_size) ==
    LET num_strata == Min2(MaxStrata, Max2(MinStrata, target_size \div RowsPerStratumUnit))
        rows_per_stratum == total_rows \div num_strata
        samples_per_stratum == target_size \div num_strata
        collected == StratumLoop(0, num_strata, rows_per_stratum, samples_per_stratum,
                                 total_rows, 0)
    IN IF collected < 0 THEN [raises |-> TRUE, height |-> 0]
       ELSE [raises |-> FALSE, height |-> Min2(collected, target_size)]

\* smart_time_series_sample with preserve_patterns = True.
smart_time_series_sample(in, target_size) ==
    IF in.n <= target_size THEN Dataset("input", in.n)
    ELSE IF in.sort_raises THEN Dataset("random", target_size)
    ELSE LET st == stratified_time_sample(in.n, target_size)
         IN IF st.raises THEN Dataset("random", target_size)
            ELSE Dataset("stratified", st.height)

\* resample_time_series: every early return and the except branch hand back
\* the input or its rows with a non-null time.
resample_time_series(in) ==
    IF in.n = 0 THEN Dataset("input", in.n)
    ELSE IF in.valid = 0 THEN Dataset("input", in.n)
    ELSE IF 10 * in.valid < in.n THEN Dataset("input", in.n)
    ELSE IF in.resample = "raises" THEN Dataset("input", in.n)
    ELSE IF in.valid < 2 THEN Dataset("filtered", in.valid)
    ELSE IF in.resample = "no_numeric" THEN Dataset("filtered", in.valid)
    ELSE IF Min2(in.buckets, in.valid) = 0 THEN Dataset("filtered", in.valid)
    ELSE Dataset("resampled", Min2(in.buckets, in.valid))

\* Span limits (days) that choose the bucket width, and the row count above
\* which resampling is tried first.
DailySpanDays == 365
HourlySpanDays == 30
ResampleRows == 50000

\* An Optional[float] number of days: None, or a number.
NoDays == [known |-> FALSE, days |-> 0]
Days(d) == [known |-> TRUE, days |-> d]

\* Duration.dt.total_days(): the whole days of a duration given in hours.
HoursPerDay == 24
total_days(hours) == hours \div HoursPerDay

\* _estimate_time_range_days on a dataset of in.n rows of which in.valid have
\* a time, the first and the last of them in.span_hours apart.
estimate_time_range_days(in) ==
    IF ~in.time_col THEN NoDays
    ELSE IF in.valid = 0 THEN NoDays
    ELSE IF 10 * in.valid < in.n THEN NoDays
    ELSE IF in.cast_raises THEN NoDays
    ELSE LET days_diff == total_days(in.span_hours)
         IN IF days_diff > 0 THEN Days(days_diff) ELSE NoDays

\* Mutation of ResampleFreq: the hourly limit is tested first.
ResampleFreqHourlyFirst(time_range_days) ==
    IF time_range_days.known /\ time_range_days.days > HourlySpanDays THEN "1h"
    ELSE IF time_range_days.known /\ time_range_days.days > DailySpanDays THEN "1d"
    ELSE "10min"

\* The bucket width chosen from the estimated span; None and 0 are falsy.
ResampleFreq(time_range_days) ==
    IF time_range_days.known /\ time_range_days.days > DailySpanDays THEN "1d"
    ELSE IF time_range_days.known /\ time_range_days.days > HourlySpanDays THEN "1h"
    ELSE "10min"

NoSamplingInfo(original_size) ==
    [original_size |-> original_size, sampled_size |-> original_size,
     sampling_method |-> "none", sampling_ratio |-> Frac(1, 1),
     performance_gain |-> Frac(1, 1)]

SamplingInfo(original_size, sampled_size, method) ==
    [original_size |-> original_size, sampled_size |-> sampled_size,
     sampling_method |-> method, sampling_ratio |-> Frac(sampled_size, original_size),
     performance_gain |-> Frac(original_size, sampled_size)]

Sampled(df, info) == [df |-> df, info |-> info]

\* Mutation of BelowThreshold: the boundary case is sampled.
BelowThresholdStrict(original_size, performance_threshold) ==
    original_size < performance_threshold

\* The test that ends adaptive_sampling_strategy without sampling.
BelowThreshold(original_size, performance_threshold) ==
    original_size <= performance_threshold

\* The except branch of adaptive_sampling_strategy.
RandomFallback(in, target_size) ==
    Sampled(Dataset("random", target_size),
            SamplingInfo(in.n, target_size, "random_fallback"))

\* Mutation of SmartStep: an empty smart sample is returned as it is.
SmartStepKeepsEmpty(in, target_size) ==
    LET sampled_df == smart_time_series_sample(in, target_size)
    IN Sampled(sampled_df, SamplingInfo(in.n, sampled_df.height, "smart_time_series"))

\* The smart-sampling step of the try block; original_size / 0 raises.
SmartStep(in, target_size) ==
    LET sampled_df == smart_time_series_sample(in, target_size)
    IN IF sampled_df.height = 0 THEN RandomFallback(in, target_size)
       ELSE Sampled(sampled_df, SamplingInfo(in.n, sampled_df.height, "smart_time_series"))

adaptive_sampling_strategy(in) ==
    LET original_size == in.n
        target_size == calculate_optimal_sample_size(original_size, in.threshold)
    IN IF BelowThreshold(original_size, in.threshold)
       THEN Sampled(Dataset("input", original_size), NoSamplingInfo(original_size))
       ELSE IF ~in.time_col
       THEN Sampled(Dataset("random", target_size),
                    SamplingInfo(original_size, target_size, "random"))
       ELSE IF 2 * in.valid < original_size
       THEN Sampled(Dataset("random", target_size),
                    SamplingInfo(original_size, target_size, "random_fallback_low_quality"))
       ELSE IF original_size > ResampleRows
       THEN LET resampled_df == resample_time_series(in)
            IN IF resampled_df.height > 0 /\ resampled_df.height <= target_size
               THEN Sampled(resampled_df,
                            SamplingInfo(original_size, resampled_df.height,
                                         "time_resample_" \o
                                         ResampleFreq(estimate_time_range_days(in))))
               ELSE SmartStep(in, target_size)
       ELSE SmartStep(in, target_size)

\* Inputs of the sampling engine.
SampleRowCounts ==
    {0, 1, 4, 5, 19, 20, 21, 99, 101, 4999, 5000, 5001, 10000, 10001, 25000,
     50000, 50001, 100000, 100001, 200000}
SampleThresholds == {1, 3, 4, 5, 19, 100, 2000, 5000, 10000, 60000}
\* Hours between the earliest and the latest time of a dataset.
SampleSpans == {0, 12, 24, 480, 2400, 8772, 9600}

NoTimeInput(n, threshold) ==
    [n |-> n, threshold |-> threshold, time_col |-> FALSE, valid |-> 0,
     sort_raises |-> FALSE, resample |-> "none", buckets |-> 0, span_hours |-> 0,
     cast_raises |-> FALSE]

IdleSA ==
    /\ sa_pc = "idle"
    /\ sa_in = NoTimeInput(0, 1)
    /\ sa_out = Sampled(Dataset("input", 0), NoSamplingInfo(0))
    /\ sa_days = NoDays

InitSA ==
    /\ sa_pc = "input"
    /\ sa_out = Sampled(Dataset("input", 0), NoSamplingInfo(0))
    /\ sa_days = NoDays
    /\ \E n \in SampleRowCounts, threshold \in SampleThresholds :
         \/ sa_in = NoTimeInput(n, threshold)
         \/ \E valid \in {0, 1, 2, (n - 1) \div 10, (n + 9) \div 10, (n - 1) \div 2,
                          (n + 1) \div 2, n} :
            \E cast_raises \in BOOLEAN :
            \E sort_raises \in BOOLEAN :
            \E resample \in {"raises", "no_numeric", "buckets"} :
            \E buckets \in {0, 1, calculate_optimal_sample_size(n, threshold),
                            calculate_optimal_sample_size(n, threshold) + 1} :
            \E span_hours \in SampleSpans :
               /\ valid >= 0 /\ valid <= n
               /\ valid < 2 => span_hours = 0
               /\ resample # "buckets" => buckets = 0
               /\ sa_in = [n |-> n, threshold |-> threshold, time_col |-> TRUE,
                           valid |-> valid, sort_raises |-> sort_raises,
                           resample |-> resample, buckets |-> buckets,
                           span_hours |-> span_hours, cast_raises |-> cast_raises]

AdaptiveSampling ==
    /\ sa_pc = "input"
    /\ sa_out' = adaptive_sampling_strategy(sa_in)
    /\ sa_pc' = "done"
    /\ UNCHANGED <<sa_in, sa_days>>

\* A call of _estimate_time_range_days(df, time_col) on its own.
EstimateTimeRangeDays ==
    /\ sa_pc = "input"
    /\ sa_days' = estimate_time_range_days(sa_in)
    /\ sa_pc' = "estimated"
    /\ UNCHANGED <<sa_in, sa_out>>

(***************************************************************************)
(* parallel_column_processing                                              *)
(*                                                                         *)
(* process_func on a column either returns its value, raises an Exception, *)
(* returns its value after more than the collector is willing to wait      *)
(* ("slow"), or never returns ("hangs").  Time is abstract: a wait on a    *)
(* future times out only when nothing quick is left to happen, that is     *)
(* when no queued task can start and every running task is slow or hangs.  *)
(***************************************************************************)
MaxColumns == 3
MAX_WORKERS == 4

None == "None"

\* Column names in the order the lists mention them; "z" is not in df.
NameOrder == <<"a", "z", "b", "c", "d", "e", "f">>
ListedNames == SubSeq(NameOrder, 1, MaxColumns + 1)
DfColumns == {ListedNames[k] : k \in 1..Len(ListedNames)} \ {"z"}
ColumnLists ==
    {SelectSeq(ListedNames, LAMBDA x : x \in S) : S \in SUBSET (DfColumns \cup {"z"})}
FuncBehaviours == {"returns", "raises", "slow", "hangs"}
MaxWorkersInputs == {1, 2, MAX_WORKERS}

\* The value a pure process_func computes from df[col].
process_func(col) == "f(" \o col \o ")"

TaskResult(result, success) == [result |-> result, success |-> success]
NoTaskResult == [result |-> None, success |-> FALSE]

\* wrapped_func of submit_task: the function's value, or a failed TaskResult
\* when it raised.
wrapped_func(col) ==
    IF pp_func[col] = "raises" THEN TaskResult(None, FALSE)
    ELSE TaskResult(process_func(col), TRUE)

\* Mutation of CollectedValue: the success test is negated.
CollectedValueNegated(task_result) ==
    IF ~task_result.success THEN task_result.result ELSE None

\* What the collecting loop stores for a finished future.
CollectedValue(task_result) ==
    IF task_result.success THEN task_result.result ELSE None

\* Mutation of ResultSlot: a worker delivers into the future submitted first.
ResultSlotFirst(col) == pp_futures[1]

\* The future a worker running col's task delivers its TaskResult to.
ResultSlot(col) == col

\* Threads of the ThreadPoolExecutor.
WorkerCount == Min2(pp_max_workers, Len(pp_columns))
Running == {c \in DfColumns : pp_work[c].state = "running"}
FuturePos(col) == CHOOSE k \in 1..Len(pp_futures) : pp_futures[k] = col
\* The work queue is FIFO.
HeadOfQueue(col) ==
    /\ pp_work[col].state = "queued"
    /\ \A k \in 1..Len(pp_futures) :
         k < FuturePos(col) => pp_work[pp_futures[k]].state # "queued"
CanStart(col) == HeadOfQueue(col) /\ Cardinality(Running) < WorkerCount
Quiescent ==
    /\ \A c \in DfColumns : ~CanStart(c)
    /\ \A c \in Running : pp_func[c] \in {"slow", "hangs"}

FreshWork == [c \in DfColumns |-> [state |-> "none", result |-> NoTaskResult]]

IdlePP ==
    /\ pp_pc = "idle"
    /\ pp_columns = <<>>
    /\ pp_func = [c \in DfColumns |-> "returns"]
    /\ pp_max_workers = MAX_WORKERS
    /\ pp_i = 1
    /\ pp_futures = <<>>
    /\ pp_work = FreshWork
    /\ pp_results = <<>>
    /\ pp_timed_out = {}
    /\ pp_completed = <<>>

InitPP ==
    /\ pp_pc = "call"
    /\ pp_columns \in ColumnLists
    /\ pp_func \in [DfColumns -> FuncBehaviours]
    /\ \A c \in DfColumns :
         (\A k \in 1..Len(pp_columns) : pp_columns[k] # c) => pp_func[c] = "returns"
    /\ pp_max_workers \in MaxWorkersInputs
    /\ pp_i = 1
    /\ pp_futures = <<>>
    /\ pp_work = FreshWork
    /\ pp_results = <<>>
    /\ pp_timed_out = {}
    /\ pp_completed = <<>>

\* Lines 247-264: the empty list returns at once, up to two columns are
\* processed in the calling thread, more go to the pool.
CallColumns ==
    /\ pp_pc = "call"
    /\ pp_pc' = IF Len(pp_columns) = 0 THEN "returned"
                ELSE IF Len(pp_columns) <= 2 THEN "sequential"
                ELSE "submit"
    /\ UNCHANGED <<pp_columns, pp_func, pp_max_workers, pp_i, pp_futures, pp_work,
                   pp_results, pp_timed_out, pp_completed>>

\* One iteration of the sequential loop; a function that hangs blocks it.
SequentialColumn ==
    /\ pp_pc = "sequential"
    /\ pp_i <= Len(pp_columns)
    /\ LET col == pp_columns[pp_i]
       IN IF col \notin DfColumns THEN UNCHANGED pp_results
          ELSE /\ pp_func[col] # "hangs"
               /\ pp_results' = Put(pp_results, col,
                                    IF pp_func[col] = "raises" THEN None
                                    ELSE process_func(col))
    /\ pp_i' = pp_i + 1
    /\ UNCHANGED <<pp_pc, pp_columns, pp_func, pp_max_workers, pp_futures, pp_work,
                   pp_timed_out, pp_completed>>

SequentialReturn ==
    /\ pp_pc = "sequential"
    /\ pp_i > Len(pp_columns)
    /\ pp_pc' = "returned"
    /\ UNCHANGED <<pp_columns, pp_func, pp_max_workers, pp_i, pp_futures, pp_work,
                   pp_results, pp_timed_out, pp_completed>>

\* One iteration of the submitting loop.
SubmitTask ==
    /\ pp_pc = "submit"
    /\ pp_i <= Len(pp_columns)
    /\ LET col == pp_columns[pp_i]
       IN IF col \notin DfColumns THEN UNCHANGED <<pp_futures, pp_work>>
          ELSE /\ pp_futures' = Append(pp_futures, col)
               /\ pp_work' = [pp_work EXCEPT ![col].state = "queued"]
    /\ pp_i' = pp_i + 1
    /\ UNCHANGED <<pp_pc, pp_columns, pp_func, pp_max_workers, pp_results,
                   pp_timed_out, pp_completed>>

SubmitDone ==
    /\ pp_pc = "submit"
    /\ pp_i > Len(pp_columns)
    /\ pp_pc' = "collect"
    /\ pp_i' = 1
    /\ UNCHANGED <<pp_columns, pp_func, pp_max_workers, pp_futures, pp_work,
                   pp_results, pp_timed_out, pp_completed>>

\* A pool thread takes the next queued task.
WorkerStart(col) ==
    /\ CanStart(col)
    /\ pp_work' = [pp_work EXCEPT ![col].state = "running"]
    /\ UNCHANGED <<pp_pc, pp_columns, pp_func, pp_max_workers, pp_i, pp_futures,
                   pp_results, pp_timed_out, pp_completed>>

\* wrapped_func returns and the future is resolved.
WorkerFinish(col) ==
    /\ pp_work[col].state = "running"
    /\ pp_func[col] # "hangs"
    /\ pp_work' = [c \in DfColumns |->
                     [state |-> IF c = col THEN "done" ELSE pp_work[c].state,
                      result |-> IF c = ResultSlot(col) THEN wrapped_func(col)
                                 ELSE pp_work[c].result]]
    /\ pp_completed' = Append(pp_completed, col)
    /\ UNCHANGED <<pp_pc, pp_columns, pp_func, pp_max_workers, pp_i, pp_futures,
                   pp_results, pp_timed_out>>

\* future.result(timeout=30) returns the TaskResult.
CollectResult ==
    /\ pp_pc = "collect"
    /\ pp_i <= Len(pp_futures)
    /\ LET col == pp_futures[pp_i]
       IN /\ pp_work[col].state = "done"
          /\ pp_results' = Put(pp_results, col, CollectedValue(pp_work[col].result))
    /\ pp_i' = pp_i + 1
    /\ UNCHANGED <<pp_pc, pp_columns, pp_func, pp_max_workers, pp_futures, pp_work,
                   pp_timed_out, pp_completed>>

\* future.result(timeout=30) raises TimeoutError: the column is stored as
\* None and the task is left as it is.
CollectTimeout ==
    /\ pp_pc = "collect"
    /\ pp_i <= Len(pp_futures)
    /\ LET col == pp_futures[pp_i]
       IN /\ pp_work[col].state # "done"
          /\ Quiescent
          /\ pp_results' = Put(pp_results, col, None)
          /\ pp_timed_out' = pp_timed_out \cup {col}
    /\ pp_i' = pp_i + 1
    /\ UNCHANGED <<pp_pc, pp_columns, pp_func, pp_max_workers, pp_futures, pp_work,
                   pp_completed>>

CollectDone ==
    /\ pp_pc = "collect"
    /\ pp_i > Len(pp_futures)
    /\ pp_pc' = "exit"
    /\ UNCHANGED <<pp_columns, pp_func, pp_max_workers, pp_i, pp_futures, pp_work,
                   pp_results, pp_timed_out, pp_completed>>

\* __exit__: executor.shutdown(wait=True) returns once every submitted task
\* has finished; then the function returns results.
ExitProcessor ==
    /\ pp_pc = "exit"
    /\ \A c \in DfColumns : pp_work[c].state \in {"none", "done"}
    /\ pp_pc' = "returned"
    /\ UNCHANGED <<pp_columns, pp_func, pp_max_workers, pp_i, pp_futures, pp_work,
                   pp_results, pp_timed_out, pp_completed>>

(***************************************************************************)
(* analyze_data_file: data preparation and the missing-value section       *)
(*                                                                         *)
(* A dataset is its row count and the null count of one numeric column.    *)
(***************************************************************************)
\* prepare_analysis_data's default sample_size.
sample_size == 100000
MaxNulls == 3

ReportRowCounts == {0, 1, 2, 50000, 99999, 100000, 100001, 100002, 150000, 200000}

Table(height, nulls) == [height |-> height, nulls |-> nulls]
NoMissing == [total_count |-> 0, null_count |-> 0, non_null_count |-> 0,
              null_percentage |-> 0]

\* Null counts a sample of sample_size rows of df can have.
SampleNulls(df) ==
    Max2(0, df.nulls - (df.height - sample_size)) .. Min2(df.nulls, sample_size)

\* round(null_count / total_rows * 100, 2) in hundredths of a percent,
\* rounded to nearest.
NullPercentage(null_count, total_rows) ==
    IF total_rows > 0
    THEN LET q == (null_count * 10000) \div total_rows
             r == (null_count * 10000) % total_rows
         IN IF 2 * r >= total_rows THEN q + 1 ELSE q
    ELSE 0

\* analyze_missing_values for the column.
analyze_missing_values(df) ==
    [total_count |-> df.height, null_count |-> df.nulls,
     non_null_count |-> df.height - df.nulls,
     null_percentage |-> NullPercentage(df.nulls, df.height)]

\* A column of the dataset: numeric or not, and whether its non-null values
\* are all equal.
Column(numeric, constant) == [numeric |-> numeric, constant |-> constant]

\* The filter loop of prepare_analysis_data on one numeric column: it is
\* dropped when all-null or when np.std(values, ddof=1) < 1e-10; for a single
\* value the deviation is nan and the comparison false.
ExcludedColumn(non_null, constant) ==
    \/ non_null = 0
    \/ non_null >= 2 /\ constant

\* df.sample(sample_size, seed=42) when the dataset is larger: the frame and
\* whether the sampled values of the column are all equal.
SampledFrames(df, col) ==
    IF df.height > sample_size
    THEN {f \in [table : {Table(sample_size, k) : k \in SampleNulls(df)},
                 constant : BOOLEAN] :
             /\ col.constant => f.constant
             /\ sample_size - f.table.nulls < 2 => f.constant
             /\ (~col.constant /\ df.nulls - f.table.nulls = df.height - sample_size)
                   => ~f.constant}
    ELSE {[table |-> df, constant |-> col.constant]}

\* The other column of the dataset: whether its name matches a time pattern,
\* its dtype ("none": there is no other column), whether str(dtype) starts
\* with lower-case "datetime" in the installed polars, whether its first
\* value looks like a date, what str.strptime makes of it over the formats
\* tried, and whether its rows are in ascending order.
TimeCandidate(name_matches, dtype, str_lower, dated, parse, ordered) ==
    [name_matches |-> name_matches, dtype |-> dtype, str_lower |-> str_lower,
     dated |-> dated, parse |-> parse, ordered |-> ordered]
NoTimeCandidate == TimeCandidate(FALSE, "none", FALSE, FALSE, "none", TRUE)

TimeCandidates ==
    {NoTimeCandidate} \cup
    {TimeCandidate(nm, "Datetime", sl, FALSE, "none", o) :
        nm \in BOOLEAN, sl \in BOOLEAN, o \in BOOLEAN} \cup
    {TimeCandidate(nm, "Float64", FALSE, FALSE, "none", o) :
        nm \in BOOLEAN, o \in BOOLEAN} \cup
    {TimeCandidate(nm, "Utf8", FALSE, d, p, o) :
        nm \in BOOLEAN, d \in BOOLEAN, p \in {"ok", "all_null", "raises"},
        o \in BOOLEAN}

\* detect_time_column: by name, then by dtype, then by the first value.
detect_time_column(tc) ==
    /\ tc.dtype # "none"
    /\ \/ tc.name_matches
       \/ tc.dtype = "Datetime" /\ tc.str_lower
       \/ tc.dtype = "Utf8" /\ tc.dated

\* data_info: the time column as returned and the warnings list.
DataInfo(time_column, dtype, sorted, warnings) ==
    [time_column |-> time_column, dtype |-> dtype, sorted |-> sorted,
     warnings |-> warnings]
NoDataInfo == DataInfo(FALSE, "none", FALSE, {})

\* The warning of the sampling step.
SamplingWarnings(df) == IF df.height > sample_size THEN {"sampled"} ELSE {}

\* The time-column part of prepare_analysis_data: conversion of a string
\* column, then the sort by the time column.
PrepareTimeColumn(tc, warnings) ==
    IF ~detect_time_column(tc)
    THEN DataInfo(FALSE, "none", tc.ordered, warnings)
    ELSE IF tc.dtype = "Utf8"
    THEN IF tc.parse = "ok"
         THEN DataInfo(TRUE, "Datetime", TRUE, warnings)
         ELSE DataInfo(FALSE, "none", tc.ordered, warnings \cup {"time_unparsed"})
    ELSE DataInfo(TRUE, tc.dtype, TRUE, warnings)

\* The result dict: its missing_values section and the preparation warnings
\* it carries.
Result(missing_values, warnings) ==
    [success |-> TRUE, missing_values |-> missing_values, warnings |-> warnings]
NoResult == [success |-> FALSE, missing_values |-> NoMissing, warnings |-> {}]

IdleRP ==
    /\ rp_pc = "idle"
    /\ rp_df = Table(0, 0)
    /\ rp_col = Column(FALSE, TRUE)
    /\ rp_time = NoTimeCandidate
    /\ rp_info = NoDataInfo
    /\ rp_result = NoResult
    /\ rp_processed = Table(0, 0)
    /\ rp_missing = NoMissing

InitRP ==
    /\ rp_pc = "loaded"
    /\ \E n \in ReportRowCounts :
       \E nulls \in (0..MaxNulls) \cup {n - k : k \in 0..MaxNulls} :
       \E numeric \in BOOLEAN, constant \in BOOLEAN :
         /\ nulls >= 0 /\ nulls <= n
         /\ n - nulls < 2 => constant
         /\ rp_df = Table(n, nulls)
         /\ rp_col = Column(numeric, constant)
    /\ rp_time \in TimeCandidates
    /\ rp_info = NoDataInfo
    /\ rp_result = NoResult
    /\ rp_processed = Table(0, 0)
    /\ rp_missing = NoMissing

\* prepare_analysis_data inside analyze_data_file: an empty dataset or one
\* without a usable numeric column raises ValueError, which the except clause
\* of analyze_data_file logs and raises again; more than sample_size rows are
\* sampled before the columns are looked at.
prepare_analysis_data ==
    /\ rp_pc = "loaded"
    /\ IF rp_df.height = 0
       THEN /\ rp_pc' = "failed"
            /\ UNCHANGED <<rp_processed, rp_info>>
       ELSE \E sampled \in SampledFrames(rp_df, rp_col) :
              IF \/ ~rp_col.numeric
                 \/ ExcludedColumn(sampled.table.height - sampled.table.nulls,
                                   sampled.constant)
              THEN /\ rp_pc' = "failed"
                   /\ UNCHANGED <<rp_processed, rp_info>>
              ELSE /\ rp_pc' = "prepared"
                   /\ rp_processed' = sampled.table
                   /\ rp_info' = PrepareTimeColumn(rp_time, SamplingWarnings(rp_df))
    /\ UNCHANGED <<rp_df, rp_col, rp_time, rp_result, rp_missing>>

\* Stage 4 of analyze_data_file.
AnalyzeMissingValues ==
    /\ rp_pc = "prepared"
    /\ rp_missing' = analyze_missing_values(rp_processed)
    /\ rp_pc' = "analyzed"
    /\ UNCHANGED <<rp_df, rp_col, rp_time, rp_info, rp_result, rp_processed>>

\* The end of the try block: the result dict is built and returned.
ReturnResult ==
    /\ rp_pc = "analyzed"
    /\ rp_result' = Result(rp_missing, {})
    /\ rp_pc' = "returned"
    /\ UNCHANGED <<rp_df, rp_col, rp_time, rp_info, rp_processed, rp_missing>>

(***************************************************************************)
(* perform_adf_test                                                        *)
(*                                                                         *)
(* The series is None or has a length and a number of nulls.  adfuller on  *)
(* the clean values raises or returns a statistic and a p-value; p-values  *)
(* are in thousandths.  Interpretation texts are named by their meaning.   *)
(***************************************************************************)
MaxAdfLen == 8
MinObservations == 4
SignificancePerMille == 50

NoSeries == [none |-> TRUE, len |-> 0, nulls |-> 0]
Series(len, nulls) == [none |-> FALSE, len |-> len, nulls |-> nulls]

\* An Optional[float] field of the result.
NoFloat == [none |-> TRUE, value |-> 0]
Float(v) == [none |-> FALSE, value |-> v]

AdfullerOutcomes ==
    {[raises |-> TRUE, adf_statistic |-> 0, p_value |-> 0]} \cup
    [raises : {FALSE}, adf_statistic : {-4, -1}, p_value : {0, 49, 50, 900}]

AdfResult(adf_statistic, p_value, is_stationary, interpretation) ==
    [adf_statistic |-> adf_statistic, p_value |-> p_value,
     is_stationary |-> is_stationary, interpretation |-> interpretation]

\* Mutation of TooShort: three observations are enough.
TooShortByOne(length) == length < MinObservations - 1

\* len(...) < 4
TooShort(length) == length < MinObservations

\* series.drop_nulls()
drop_nulls(series) == Series(series.len - series.nulls, 0)

perform_adf_test(series, adfuller) ==
    IF series.none \/ TooShort(series.len)
    THEN AdfResult(NoFloat, NoFloat, None, "insufficient data")
    ELSE IF TooShort(drop_nulls(series).len)
    THEN AdfResult(NoFloat, NoFloat, None, "insufficient valid data")
    ELSE IF adfuller.raises
    THEN AdfResult(NoFloat, NoFloat, None, "ADF test failed: " \o "error")
    ELSE LET is_stationary == adfuller.p_value < SignificancePerMille
         IN AdfResult(Float(adfuller.adf_statistic), Float(adfuller.p_value),
                      IF is_stationary THEN "True" ELSE "False",
                      IF is_stationary THEN "stationary" ELSE "non-stationary")

NoAdfResult == AdfResult(NoFloat, NoFloat, None, "")

IdleAD ==
    /\ ad_pc = "idle"
    /\ ad_series = NoSeries
    /\ ad_adfuller = [raises |-> TRUE, adf_statistic |-> 0, p_value |-> 0]
    /\ ad_result = NoAdfResult

InitAD ==
    /\ ad_pc = "input"
    /\ \/ ad_series = NoSeries
       \/ \E len \in 0..MaxAdfLen : \E nulls \in 0..len : ad_series = Series(len, nulls)
    /\ ad_adfuller \in AdfullerOutcomes
    /\ ad_result = NoAdfResult

\* A call of perform_adf_test(series); no statement of it lets an exception
\* out.
PerformAdfTest ==
    /\ ad_pc = "input"
    /\ ad_result' = perform_adf_test(ad_series, ad_adfuller)
    /\ ad_pc' = "done"
    /\ UNCHANGED <<ad_series, ad_adfuller>>

IdleCK ==
    /\ ck_pc = "idle"
    /\ ck_df = [n |-> 0, h |-> 0, w1 |-> 8, w2 |-> 8]
    /\ ck_cfg = [max_chunk_memory |-> 0, min_chunk_rows |-> 1, max_chunk_rows |-> 1]
    /\ ck_time = [present |-> FALSE, outcome |-> "none", order |-> "same"]
    /\ ck_chunks = <<>>
    /\ ck_overlap = 10
    /\ ck_view = NoView

InitCK ==
    /\ ck_pc = "input"
    /\ ck_df \in {p \in PlanProfiles : p.h <= p.n}
    /\ ck_cfg \in PlanConfigs
    /\ ck_time \in PlanTimes
    /\ ck_df.n <= MaxPlanChunks * ck_cfg.min_chunk_rows
    /\ ck_chunks = <<>>
    /\ ck_overlap \in OverlapPercents
    /\ ck_view = NoView

PlanChunks ==
    /\ ck_pc = "input"
    /\ ck_chunks' = create_adaptive_chunks(ck_cfg, ck_df, ck_time)
    /\ ck_pc' = "planned"
    /\ UNCHANGED <<ck_df, ck_cfg, ck_time, ck_overlap, ck_view>>

\* The orchestrator (with_overlap = False) or an iterator reads one chunk of
\* the dataset the plan was made for.
GetChunkData ==
    /\ ck_pc = "planned"
    /\ \E index \in {1, 2, Len(ck_chunks) - 1, Len(ck_chunks)} \cap (1..Len(ck_chunks)) :
       \E with_overlap \in BOOLEAN :
          ck_view' = [index |-> index, with_overlap |-> with_overlap,
                      frame |-> get_chunk_data(WholeFrame(ck_df), ck_chunks[index],
                                               with_overlap, ck_overlap)]
    /\ ck_pc' = "viewed"
    /\ UNCHANGED <<ck_df, ck_cfg, ck_time, ck_chunks, ck_overlap>>

InitChunks == IdleTM /\ InitCK /\ IdleMG /\ IdleSA /\ IdlePP /\ IdleRP /\ IdleAD
notCK == <<tmVars, mgVars, saVars, ppVars, rpVars, adVars>>
NextChunks ==
    \/ PlanChunks /\ UNCHANGED notCK
    \/ GetChunkData /\ UNCHANGED notCK
SpecChunks == InitChunks /\ [][NextChunks]_vars

InitMerge == IdleTM /\ IdleCK /\ InitMG /\ IdleSA /\ IdlePP /\ IdleRP /\ IdleAD
NextMerge == MergeChunkResults /\ UNCHANGED <<tmVars, ckVars, saVars, ppVars, rpVars, adVars>>
SpecMerge == InitMerge /\ [][NextMerge]_vars

\* Basic statistics of handle_full_analysis: chunk results, then the merge.
notMG == <<tmVars, ckVars, saVars, ppVars, rpVars, adVars>>
InitFullAnalysis == IdleTM /\ IdleCK /\ InitFA /\ IdleSA /\ IdlePP /\ IdleRP /\ IdleAD
NextFullAnalysis ==
    \/ ProcessChunksParallel /\ UNCHANGED notMG
    \/ MergeChunkResults /\ UNCHANGED notMG
SpecFullAnalysis == InitFullAnalysis /\ [][NextFullAnalysis]_vars

InitSampling == IdleTM /\ IdleCK /\ IdleMG /\ InitSA /\ IdlePP /\ IdleRP /\ IdleAD
notSA == <<tmVars, ckVars, mgVars, ppVars, rpVars, adVars>>
NextSampling ==
    \/ AdaptiveSampling /\ UNCHANGED notSA
    \/ EstimateTimeRangeDays /\ UNCHANGED notSA
SpecSampling == InitSampling /\ [][NextSampling]_vars

notPP == <<tmVars, ckVars, mgVars, saVars, rpVars, adVars>>
InitColumns == IdleTM /\ IdleCK /\ IdleMG /\ IdleSA /\ InitPP /\ IdleRP /\ IdleAD
NextColumns ==
    \/ CallColumns /\ UNCHANGED notPP
    \/ SequentialColumn /\ UNCHANGED notPP
    \/ SequentialReturn /\ UNCHANGED notPP
    \/ SubmitTask /\ UNCHANGED notPP
    \/ SubmitDone /\ UNCHANGED notPP
    \/ \E col \in DfColumns : WorkerStart(col) /\ UNCHANGED notPP
    \/ \E col \in DfColumns : WorkerFinish(col) /\ UNCHANGED notPP
    \/ CollectResult /\ UNCHANGED notPP
    \/ CollectTimeout /\ UNCHANGED notPP
    \/ CollectDone /\ UNCHANGED notPP
    \/ ExitProcessor /\ UNCHANGED notPP
SpecColumns == InitColumns /\ [][NextColumns]_vars
\* Threads that can take a step do take one: the calling thread and the pool
\* threads are scheduled by the operating system.
SpecColumnsFair == SpecColumns /\ WF_vars(NextColumns)

notRP == <<tmVars, ckVars, mgVars, saVars, ppVars, adVars>>
InitReport == IdleTM /\ IdleCK /\ IdleMG /\ IdleSA /\ IdlePP /\ InitRP /\ IdleAD
NextReport ==
    \/ prepare_analysis_data /\ UNCHANGED notRP
    \/ AnalyzeMissingValues /\ UNCHANGED notRP
    \/ ReturnResult /\ UNCHANGED notRP
SpecReport == InitReport /\ [][NextReport]_vars

notAD == <<tmVars, ckVars, mgVars, saVars, ppVars, rpVars>>
InitStationarity == IdleTM /\ IdleCK /\ IdleMG /\ IdleSA /\ IdlePP /\ IdleRP /\ InitAD
NextStationarity == PerformAdfTest /\ UNCHANGED notAD
SpecStationarity == InitStationarity /\ [][NextStationarity]_vars

notTM == <<ckVars, mgVars, saVars, ppVars, rpVars, adVars>>
Init == InitTM /\ IdleCK /\ IdleMG /\ IdleSA /\ IdlePP /\ IdleRP /\ IdleAD
Next ==
    \/ \E ty \in TaskTypes : create_task(ty) /\ UNCHANGED notTM
    \/ \E t \in TaskIds : cancel_task(t) /\ UNCHANGED notTM
    \/ \E t \in TaskIds, p \in ProgressInputs : update_progress(t, p) /\ UNCHANGED notTM
    \/ \E t \in TaskIds : HandlerSuspend(t) /\ UNCHANGED notTM
    \/ \E t \in TaskIds : HandlerReturn(t) /\ UNCHANGED notTM
    \/ \E t \in TaskIds : HandlerRaise(t) /\ UNCHANGED notTM
    \/ \E t \in TaskIds : HandlerCancelled(t) /\ UNCHANGED notTM
    \/ \E t \in TaskIds : CancelledBeforeStart(t) /\ UNCHANGED notTM
    \/ \E k \in KeepRecentInputs : cleanup_completed_tasks(k) /\ UNCHANGED notTM
Spec == Init /\ [][Next]_vars

\* The scheduling of tasks only: callers create and cancel, the event loop
\* runs every coroutine step that is ready, and every handler finishes.
HandlerSteps ==
    \E t \in TaskIds :
        \/ HandlerSuspend(t) \/ HandlerReturn(t) \/ HandlerRaise(t)
        \/ HandlerCancelled(t) \/ CancelledBeforeStart(t)
NextDispatch ==
    \/ \E ty \in TaskTypes : create_task(ty) /\ UNCHANGED notTM
    \/ \E t \in TaskIds : cancel_task(t) /\ UNCHANGED notTM
    \/ \E t \in TaskIds : HandlerSuspend(t) /\ UNCHANGED notTM
    \/ \E t \in TaskIds : HandlerReturn(t) /\ UNCHANGED notTM
    \/ \E t \in TaskIds : HandlerRaise(t) /\ UNCHANGED notTM
    \/ \E t \in TaskIds : HandlerCancelled(t) /\ UNCHANGED notTM
    \/ \E t \in TaskIds : CancelledBeforeStart(t) /\ UNCHANGED notTM
SpecDispatchFair ==
    Init /\ [][NextDispatch]_vars /\ WF_vars(HandlerSteps /\ UNCHANGED notTM)

(***************************************************************************)
(* C2: chunk coverage: the chunks returned by create_adaptive_chunks start *)
(* at row 0, each chunk ends where the next one starts, the last one ends  *)
(* at total_rows and row_count = end_row - start_row, on the single-chunk, *)
(* row-based and time-aligned branches (oversized chunks split or not).    *)
(***************************************************************************)
C2_ChunkCoverage ==
    ck_pc = "planned" =>
        /\ Len(ck_chunks) >= 1
        /\ ck_chunks[1].start_row = 0
        /\ ck_chunks[Len(ck_chunks)].end_row = ck_df.n
        /\ \A i \in 1..Len(ck_chunks) :
              /\ ck_chunks[i].row_count = ck_chunks[i].end_row - ck_chunks[i].start_row
              /\ ck_chunks[i].start_row <= ck_chunks[i].end_row
              /\ i < Len(ck_chunks) => ck_chunks[i].end_row = ck_chunks[i + 1].start_row

\* A time-aligned plan in which an oversized chunk was split into sub-chunks.
C2_Witness ==
    /\ ck_pc = "planned"
    /\ ck_time.present /\ ck_time.outcome = "ok"
    /\ ck_df.n > TimeChunkRows
    /\ estimate_memory_usage(WholeFrame(ck_df)) > ck_cfg.max_chunk_memory
    /\ Len(ck_chunks) > Len(create_time_based_chunks(ck_cfg, ck_df, ck_time))

(***************************************************************************)
(* C3: merge equals direct computation: merging the accumulators of the    *)
(* chunks of a contiguous partition (1, 2 or 5 chunks) of a numeric column *)
(* gives the count, min, max, mean and sample variance (hence std) of the  *)
(* whole column, and regrouping the merge, merge(merge(a,b),c) against     *)
(* merge(a,merge(b,c)), gives the same result.                             *)
(***************************************************************************)
\* The chunk results that are not placeholders of failed chunks.
WithoutErrors(results) == SelectSeq(results, LAMBDA r : "error" \notin r.keys)

\* n^2 times the sum of squared deviations from the mean: sum (n x - S)^2.
ScaledSqDev(xs) ==
    SumSeq([i \in 1..Len(xs) |->
              (Len(xs) * xs[i] - SumSeq(xs)) * (Len(xs) * xs[i] - SumSeq(xs))])

MergedEqualsDirect(m, xs) ==
    LET n == Len(xs)
    IN /\ m.count = n
       /\ n >= 1 =>
            /\ {"min", "max", "mean", "std"} \subseteq m.keys
            /\ m.min = Fin(MinSeq(xs))
            /\ m.max = Fin(MaxSeq(xs))
            /\ m.mean.den # 0
            /\ m.mean.num * n = SumSeq(xs) * m.mean.den
            /\ m.std.den # 0
            \* numpy std(ddof=1) for n > 1, 0.0 for n = 1
            /\ n > 1 => m.std.num * (n * n * (n - 1)) = ScaledSqDev(xs) * m.std.den
            /\ n = 1 => m.std.num = 0

Merge2(a, b) == merge_chunk_results(<<a, b>>, "stats")
Merge3(a, b, c) == merge_chunk_results(<<a, b, c>>, "stats")

Permuted(xs, perm) == [i \in 1..Len(xs) |-> xs[perm[i]]]

C4_MergeOrderIndependent ==
    mg_pc = "merged" =>
        \A perm \in Permutations(1..Len(mg_results)) :
            merge_chunk_results(Permuted(mg_results, perm), mg_kind) = mg_merged

(***************************************************************************)
(* C5: no sampling when not needed: when original_size <=                  *)
(* performance_threshold, adaptive_sampling_strategy returns the input     *)
(* dataset itself with method none, sampled_size = original_size, ratio    *)
(* 1.0 and gain 1.0, with or without a time column.                        *)
(***************************************************************************)
C5_NoSamplingBelowThreshold ==
    (sa_pc = "done" /\ sa_in.n <= sa_in.threshold) =>
        /\ sa_out.df = Dataset("input", sa_in.n)
        /\ sa_out.info.original_size = sa_in.n
        /\ sa_out.info.sampled_size = sa_in.n
        /\ sa_out.info.sampling_method = "none"
        /\ sa_out.info.sampling_ratio = Frac(1, 1)
        /\ sa_out.info.performance_gain = Frac(1, 1)

\* A dataset exactly at the threshold, with a time column, went through.
C5_Witness ==
    /\ sa_pc = "done"
    /\ sa_in.n = sa_in.threshold
    /\ sa_in.time_col /\ sa_in.valid = sa_in.n
    /\ sa_out.info.sampling_method = "none"

(***************************************************************************)
(* C6: sampling bounds: on every branch the reported sampled_size is the   *)
(* row count of the returned dataset, sampled_size <= original_size, and   *)
(* sampled_size <= performance_threshold whenever the method is not none.  *)
(***************************************************************************)
C6_SamplingBounds ==
    sa_pc = "done" =>
        /\ sa_out.info.sampled_size = sa_out.df.height
        /\ sa_out.info.sampled_size <= sa_in.n
        /\ sa_out.info.sampling_method # "none" =>
              sa_out.info.sampled_size <= sa_in.threshold

\* A large dataset reduced by smart time-series sampling.
C6_Witness ==
    /\ sa_pc = "done"
    /\ sa_in.n > LargeTierRows
    /\ sa_out.info.sampling_method = "smart_time_series"
    /\ sa_out.df.src = "stratified"
    /\ sa_out.info.sampled_size > 0

(***************************************************************************)
(* C7: column-failure isolation, as the code has it: on the sequential and *)
(* the pooled path parallel_column_processing returns a mapping with       *)
(* exactly the requested columns present in the dataset as keys, a column  *)
(* is None when its function raised or the wait for its result timed out,  *)
(* and every other column holds the function's result.                     *)
(***************************************************************************)
RequestedColumns == {pp_columns[k] : k \in 1..Len(pp_columns)} \cap DfColumns

C7_FailureIsolation ==
    pp_pc = "returned" =>
        /\ DOMAIN pp_results = RequestedColumns
        /\ \A c \in RequestedColumns :
             pp_results[c] = IF pp_func[c] = "raises" \/ c \in pp_timed_out
                             THEN None ELSE process_func(c)

\* A pooled call returned with a raising column as None next to a column
\* holding its result.
C7_Witness ==
    /\ pp_pc = "returned"
    /\ Len(pp_columns) > 2
    /\ \E c, d \in RequestedColumns :
         /\ pp_func[c] = "raises" /\ pp_results[c] = None
         /\ pp_func[d] = "returns" /\ pp_results[d] = process_func(d)

\* C7 as stated: exactly the columns whose function raises are None.
C7_ExactlyRaisingColumnsNone ==
    pp_pc = "returned" =>
        \A c \in RequestedColumns :
            /\ c \in DOMAIN pp_results
            /\ (pp_results[c] = None) <=> (pp_func[c] = "raises")

(***************************************************************************)
(* C8: hard per-task timeout: in the pooled path, once the wait for a      *)
(* column's task has timed out, the call eventually returns with that      *)
(* column mapped to None, even when the column's function never finishes.  *)
(***************************************************************************)
C8_TimedOutCallReturns ==
    \A c \in DfColumns :
        (c \in pp_timed_out) ~>
            (pp_pc = "returned" /\ c \in DOMAIN pp_results /\ pp_results[c] = None)

(***************************************************************************)
(* C9: determinism under concurrency, as the code has it: whenever no wait *)
(* for a result timed out, the returned mapping is the one fixed by the    *)
(* dataset, the column list and the function, whatever the order in which  *)
(* the tasks started and completed; and a step that resolves a future      *)
(* changes that one future only, not the results dict.                     *)
(***************************************************************************)
ExpectedMapping ==
    [c \in RequestedColumns |->
        IF pp_func[c] = "raises" THEN None ELSE process_func(c)]

OwnFutureOnly ==
    pp_work' # pp_work =>
        /\ pp_results' = pp_results
        /\ \E c \in DfColumns :
             /\ \A d \in DfColumns \ {c} : pp_work'[d] = pp_work[d]
             /\ pp_work'[c].result \in {pp_work[c].result, wrapped_func(c)}

C9_DeterministicWithoutTimeout ==
    /\ [](pp_pc = "returned" /\ pp_timed_out = {} => pp_results = ExpectedMapping)
    /\ [][OwnFutureOnly]_vars

\* A pooled call returned, without a timeout, after its tasks completed in
\* another order than they were submitted.
C9_Witness ==
    /\ pp_pc = "returned"
    /\ Len(pp_futures) > 2
    /\ pp_timed_out = {}
    /\ pp_completed # pp_futures
    /\ Len(pp_completed) = Len(pp_futures)

\* C9 as stated: the mapping is the same for every interleaving.
C9_SameMappingEveryInterleaving ==
    pp_pc = "returned" => pp_results = ExpectedMapping

(***************************************************************************)
(* C10: the missing-value census is never sampled: in the report of        *)
(* analyze_data_file the column's total_count is the loaded row count and  *)
(* its null_count the null count of the full column, also for datasets of  *)
(* more than 100,000 rows.                                                 *)
(***************************************************************************)
C10_CensusOverAllRows ==
    rp_pc = "analyzed" =>
        /\ rp_missing.total_count = rp_df.height
        /\ rp_missing.null_count = rp_df.nulls

(***************************************************************************)
(* C11: a failed or cancelled chunk is treated as absent: for every result *)
(* kind and every position of the {"error": ...} placeholders in the list, *)
(* merge_chunk_results returns what it returns for the list with the       *)
(* placeholders removed.                                                   *)
(***************************************************************************)
C11_FailedChunkAbsent ==
    mg_pc = "merged" =>
        mg_merged = merge_chunk_results(WithoutErrors(mg_results), mg_kind)

(***************************************************************************)
(* C12: fallback labelling: when smart time-series sampling fails inside   *)
(* (the sort or the stratified step raises), the returned data is a random *)
(* sample of target_size rows reported as random_fallback; the method      *)
(* smart_time_series is reported only for rows chosen by stratified time   *)
(* sampling.                                                               *)
(***************************************************************************)
C12_FallbackLabelled ==
    sa_pc = "done" =>
        /\ sa_out.info.sampling_method = "smart_time_series" =>
              sa_out.df.src = "stratified"
        /\ sa_out.df.src = "random" =>
              sa_out.info.sampling_method \in
                 {"random", "random_fallback", "random_fallback_low_quality"}

(***************************************************************************)
(* C13: chunk ids are sequential: in every plan returned by                *)
(* create_adaptive_chunks, chunks[i].chunk_id = i for all i, also when     *)
(* some oversized chunks of the time-aligned branch were replaced by       *)
(* sub-chunks and others were kept.                                        *)
(***************************************************************************)
C13_ChunkIdsSequential ==
    ck_pc \in {"planned", "viewed"} =>
        \A i \in 1..Len(ck_chunks) : ck_chunks[i].chunk_id = i - 1

(***************************************************************************)
(* C14: chunk time ranges describe the chunk's own rows: every chunk of a  *)
(* time-aligned plan carries a time_range equal to (min, max) of the time  *)
(* column over the rows get_chunk_data(df, chunk) returns on the dataset   *)
(* the plan was made for, whatever the row order of that dataset.          *)
(***************************************************************************)
TimeAlignedPlan ==
    /\ ck_time.present /\ ck_time.outcome = "ok"
    /\ ck_df.n > TimeChunkRows
    /\ estimate_memory_usage(WholeFrame(ck_df)) > ck_cfg.max_chunk_memory

C14_TimeRangeOfOwnRows ==
    (ck_pc = "viewed" /\ ~ck_view.with_overlap /\ TimeAlignedPlan) =>
        /\ ck_chunks[ck_view.index].time_range.known
        /\ ck_chunks[ck_view.index].time_range = FrameTimeRange(ck_view.frame, ck_time)

(***************************************************************************)
(* C16: get_chunk_data slice bounds: without overlap it returns rows       *)
(* [start_row, end_row); with overlap it returns rows                      *)
(* [max(0, start_row - k), min(total_rows, end_row + k)) with              *)
(* k = floor(overlap_ratio * row_count), which contains the plain slice    *)
(* and stays inside the dataset; the ChunkInfo is not modified.            *)
(***************************************************************************)
C16_SliceBounds ==
    ck_pc = "viewed" =>
        LET chunk == ck_chunks[ck_view.index]
            k == (chunk.row_count * ck_overlap) \div 100
            first == ck_view.frame.off
            last == ck_view.frame.off + ck_view.frame.len
        IN /\ ~ck_view.with_overlap =>
                first = chunk.start_row /\ last = chunk.end_row
           /\ ck_view.with_overlap =>
                /\ first = Max2(0, chunk.start_row - k)
                /\ last = Min2(ck_df.n, chunk.end_row + k)
                /\ first <= chunk.start_row /\ chunk.end_row <= last
           /\ 0 <= first /\ last <= ck_df.n
           /\ ck_chunks = create_adaptive_chunks(ck_cfg, ck_df, ck_time)

\* A read with overlap of the first of several chunks: the overlap is cut at
\* row 0 and extends past the chunk's end.
C16_Witness ==
    /\ ck_pc = "viewed"
    /\ ck_view.with_overlap /\ ck_overlap > 0
    /\ Len(ck_chunks) >= 2 /\ ck_view.index = 1
    /\ ck_view.frame.off = 0
    /\ ck_view.frame.len > ck_chunks[1].row_count

(***************************************************************************)
(* C15: correlation merge is flagged as approximate: over several chunk    *)
(* results merge_chunk_results(kind correlation) returns the first chunk's *)
(* correlation matrix, and the returned dict carries a tag, a key besides  *)
(* the matrix, that marks it as an approximation.                          *)
(***************************************************************************)
C15_CorrelationTagged ==
    (/\ mg_pc = "merged" /\ mg_kind = "correlation"
     /\ Len(mg_results) >= 2
     /\ Truthy(Get(mg_results[1], "correlation_matrix", "none"))) =>
        /\ mg_merged.correlation_matrix = mg_results[1].correlation_matrix
        /\ mg_merged.keys \ {"correlation_matrix"} # {}

(***************************************************************************)
(* C17: resample-first decision: for a dataset above the threshold whose   *)
(* time column is at least half non-null, the result is the resampled      *)
(* dataset with method time_resample_<freq> exactly when original_size >   *)
(* 50,000 and the resampled row count is non-zero and at most target_size, *)
(* with freq 1d for an estimated span over 365 days, 1h over 30 days and   *)
(* 10min otherwise (unknown span included); in every other case the result *)
(* is that of smart time-series sampling of the original dataset.          *)
(***************************************************************************)
C17_ResampleFirst ==
    (/\ sa_pc = "done" /\ sa_in.time_col
     /\ sa_in.n > sa_in.threshold /\ 2 * sa_in.valid >= sa_in.n) =>
        LET target_size == calculate_optimal_sample_size(sa_in.n, sa_in.threshold)
            resampled == resample_time_series(sa_in)
            span == estimate_time_range_days(sa_in)
            freq == IF span.known /\ span.days > 365 THEN "1d"
                    ELSE IF span.known /\ span.days > 30 THEN "1h"
                    ELSE "10min"
            accepted == /\ sa_in.n > 50000
                        /\ resampled.height > 0 /\ resampled.height <= target_size
        IN /\ accepted =>
                /\ sa_out.df = resampled
                /\ sa_out.info.sampling_method = "time_resample_" \o freq
                /\ sa_out.info.sampled_size = resampled.height
           /\ ~accepted =>
                /\ sa_out.info.sampling_method \in {"smart_time_series", "random_fallback"}
                /\ sa_out.info.sampling_method = "smart_time_series" =>
                      sa_out.df = smart_time_series_sample(sa_in, target_size)

\* A dataset of more than 50,000 rows spanning over a year came back as daily
\* buckets.
C17_Witness ==
    /\ sa_pc = "done"
    /\ sa_in.n > 50000 /\ sa_in.span_hours > 365 * 24 + 24
    /\ sa_out.df.src = "resampled"
    /\ sa_out.info.sampling_method = "time_resample_1d"

(***************************************************************************)
(* C18: time-range estimation distinguishes unknown from zero:             *)
(* _estimate_time_range_days returns None when less than 10% of the time   *)
(* column is non-null or fewer than 2 rows have a time, and otherwise the  *)
(* number of days between the earliest and the latest time, so that a      *)
(* zero span of two or more valid rows is a number and not None.           *)
(***************************************************************************)
C18_ZeroSpanIsNumber ==
    (sa_pc = "estimated" /\ sa_in.time_col) =>
        LET unknown == 10 * sa_in.valid < sa_in.n \/ sa_in.valid < 2
        IN /\ unknown => ~sa_days.known
           /\ (~unknown /\ ~sa_in.cast_raises) =>
                 sa_days = Days(total_days(sa_in.span_hours))

(***************************************************************************)
(* C19: stationarity test on insufficient data: for a series that is None, *)
(* empty or has fewer than 4 non-null observations perform_adf_test raises *)
(* nothing and returns adf_statistic, p_value and is_stationary None with  *)
(* a non-empty interpretation; an exception of the underlying test gives   *)
(* the same all-null result with an interpretation text.                   *)
(***************************************************************************)
C19_InsufficientDataIsNull ==
    (/\ ad_pc = "done"
     /\ \/ ad_series.none
        \/ ad_series.len - ad_series.nulls < 4
        \/ ad_adfuller.raises) =>
        /\ ad_result.adf_statistic.none
        /\ ad_result.p_value.none
        /\ ad_result.is_stationary = None
        /\ ad_result.interpretation # ""

\* A series of five values, two of them null, was tested.
C19_Witness ==
    /\ ad_pc = "done"
    /\ ad_series = Series(5, 2)
    /\ ~ad_adfuller.raises
    /\ ad_result.is_stationary = None

(***************************************************************************)
(* C20: fatal preparation errors abort the analysis: when the dataset is   *)
(* empty, has no numeric column, or has no numeric column left once        *)
(* constant (sample standard deviation under 1e-10) and all-null columns   *)
(* are filtered out, prepare_analysis_data raises and analyze_data_file    *)
(* raises with it: no stage after preparation runs and no report is        *)
(* returned.                                                               *)
(***************************************************************************)
C20_FatalPreparationAborts ==
    (\/ rp_df.height = 0
     \/ ~rp_col.numeric
     \/ rp_df.nulls = rp_df.height
     \/ rp_df.height - rp_df.nulls >= 2 /\ rp_col.constant) =>
        rp_pc \in {"idle", "loaded", "failed"}

(***************************************************************************)
(* C21: recoverable data-quality issues are recorded in the output: every  *)
(* warning prepare_analysis_data produced (dataset sampled, time column    *)
(* not parseable) is carried by the dict analyze_data_file returns.        *)
(***************************************************************************)
C21_WarningsInReport ==
    rp_pc = "returned" => rp_info.warnings \subseteq rp_result.warnings

(***************************************************************************)
(* C22: the time column is temporal or absent: after prepare_analysis_data *)
(* the returned time_column is None or names a column of processed_df of   *)
(* datetime type, processed_df is sorted by it, and no row was dropped for *)
(* a duplicate timestamp.                                                  *)
(***************************************************************************)
C22_TimeColumnTemporal ==
    (rp_pc \in {"prepared", "analyzed", "returned"} /\ rp_info.time_column) =>
        /\ rp_info.dtype = "Datetime"
        /\ rp_info.sorted
        /\ rp_processed.height = Min2(rp_df.height, sample_size)

(***************************************************************************)
(* C23: no Infinity leaks from the stats merge: in the result of           *)
(* _merge_stats_results every column's min and max is a finite number or   *)
(* is absent; float('inf') and float('-inf'), the initial values of the    *)
(* running min and max, never appear in the output.                        *)
(***************************************************************************)
C23_NoInfinityInStats ==
    (mg_pc = "merged" /\ mg_kind = "stats") =>
        \A c \in DOMAIN mg_merged.columns :
            /\ "min" \in mg_merged.columns[c].keys => mg_merged.columns[c].min.inf = 0
            /\ "max" \in mg_merged.columns[c].keys => mg_merged.columns[c].max.inf = 0

(***************************************************************************)
(* C24: cleanup_completed_tasks(keep_recent = k) keeps the k most recent   *)
(* finished tasks: after the call at most k completed, failed or cancelled *)
(* tasks are left in self.tasks, they are the ones completed last, and no  *)
(* pending or running task was deleted.                                    *)
(***************************************************************************)
C24_CleanupKeepsMostRecent ==
    [][cleanup_k' # cleanup_k =>
         LET before == CompletedTasks
             after == CompletedTasks'
         IN /\ Len(after) <= cleanup_k'
            /\ after = SubSeq(before, Len(before) - Len(after) + 1, Len(before))
            /\ \A t \in deleted' \ deleted : tasks[t].status \in TerminalStatus]_vars

(***************************************************************************)
(* C25: tasks finish only after running: a task becomes completed or       *)
(* failed only from the running state, and a pending task leaves pending   *)
(* only by becoming running or cancelled.                                  *)
(***************************************************************************)
C25_FinishOnlyAfterRunning ==
    [][\A t \in TaskIds :
          /\ (tasks'[t].status \in {COMPLETED, FAILED}
               /\ tasks'[t].status # tasks[t].status) => tasks[t].status = RUNNING
          /\ (tasks[t].status = PENDING /\ tasks'[t].status # PENDING) =>
                 tasks'[t].status \in {RUNNING, CANCELLED}]_vars

(***************************************************************************)
(* C26: the basic statistics handle_full_analysis merges from its chunk    *)
(* results describe the whole dataset: total_rows is the number of rows,   *)
(* and the numeric column's count, min and max are those of the whole      *)
(* column.                                                                 *)
(***************************************************************************)
C26_MergedBasicStatsDescribeDataset ==
    (mg_pc = "merged" /\ mg_chunks # <<>>) =>
        /\ mg_merged.total_rows = DatasetRows(mg_chunks)
        /\ MergeColumnName \in DOMAIN mg_merged.columns
        /\ mg_merged.columns[MergeColumnName].count = Len(mg_column)
        /\ mg_merged.columns[MergeColumnName].min = Fin(MinSeq(mg_column))
        /\ mg_merged.columns[MergeColumnName].max = Fin(MaxSeq(mg_column))

(***************************************************************************)
(* C27: sampling never yields zero rows: whenever original_size exceeds a  *)
(* performance_threshold of at least 1, adaptive_sampling_strategy returns *)
(* a dataset of at least one row and reports sampled_size >= 1, on every   *)
(* branch (random, low quality, resampling, smart sampling, fallback).     *)
(***************************************************************************)
C27_SampleNeverEmpty ==
    (sa_pc = "done" /\ sa_in.threshold >= 1 /\ sa_in.n > sa_in.threshold) =>
        /\ sa_out.df.height >= 1
        /\ sa_out.info.sampled_size >= 1
        /\ sa_out.info.sampled_size = sa_out.df.height

\* The stratified sample came back empty and the except branch sampled at
\* random instead.
C27_Witness ==
    /\ sa_pc = "done" /\ sa_in.time_col /\ sa_in.n > sa_in.threshold
    /\ 2 * sa_in.valid >= sa_in.n /\ ~sa_in.sort_raises
    /\ smart_time_series_sample(
           sa_in, calculate_optimal_sample_size(sa_in.n, sa_in.threshold)).height = 0
    /\ sa_out.info.sampling_method = "random_fallback"
    /\ sa_out.df.height >= 1

\* A pending task waits although a slot is free.
PendingWaits ==
    /\ \E t \in InTasks : tasks[t].status = PENDING
    /\ Cardinality(running_tasks) < max_concurrent_tasks

(***************************************************************************)
(* C29: pending tasks are eventually dispatched: a state in which a task   *)
(* is pending while fewer than max_concurrent_tasks tasks are running does *)
(* not last, even when no create_task call follows; a slot freed by a      *)
(* completion, a failure or a cancellation is given to the next pending    *)
(* task.                                                                   *)
(***************************************************************************)
C29_PendingEventuallyDispatched == PendingWaits ~> ~PendingWaits

\* Handler coroutines that have started and not finished.
ExecutingHandlers == {t \in TaskIds : coro[t] = "suspended"}

(***************************************************************************)
(* C28: bounded task concurrency: in every reachable state the number of   *)
(* tasks with status running, the size of running_tasks and the number of  *)
(* handler coroutines still executing are each at most                     *)
(* max_concurrent_tasks.                                                   *)
(***************************************************************************)
C28_BoundedConcurrency ==
    /\ Cardinality({t \in TaskIds : tasks[t].status = RUNNING}) <= max_concurrent_tasks
    /\ Cardinality(running_tasks) <= max_concurrent_tasks
    /\ Cardinality(ExecutingHandlers) <= max_concurrent_tasks

(***************************************************************************)
(* C30: running_tasks mirrors the running status: at every scheduling      *)
(* point a task id is a key of running_tasks exactly when the task's       *)
(* status is running.                                                      *)
(***************************************************************************)
C30_RunningTasksMirrorStatus ==
    \A t \in TaskIds : t \in running_tasks <=> tasks[t].status = RUNNING

\* A running task was cancelled while another one was running, and a task
\* was deleted by a cleanup.
C30_Witness ==
    /\ \E t \in TaskIds : tasks[t].status = CANCELLED /\ coro[t] = "done"
    /\ running_tasks # {}
    /\ deleted # {}

(***************************************************************************)
(* C1: terminal task states are final: once a task is completed, failed or *)
(* cancelled, no step of the manager changes its status again.             *)
(***************************************************************************)
C1_TerminalStatesFinal ==
    [][\A t \in TaskIds :
          tasks[t].status \in TerminalStatus => tasks'[t].status = tasks[t].status]_vars

====
